---- MODULE Spec2Model ----
(***************************************************************************)
(* Latency-monitor pipeline of ns-3-dev-git-rp:                            *)
(*   Reorderer   experiments/latency-monitor/pcap_sort.py                  *)
(*   Classifier  experiments/latency-monitor2/library.py parse_flows_file  *)
(*   Correlator  experiments/latency-monitor2/library.py parse_data        *)
(*                                                                         *)
(* Time is kept in integer units of the 1e-10 s collision step; floating   *)
(* point rounding is not modelled.                                         *)
(***************************************************************************)
EXTENDS Integers, Sequences, FiniteSets, TLC

(***************************************************************************)
(* Bounds of the model.                                                    *)
(***************************************************************************)
\* Number of input lines the Reorderer reads in SpecSort.
MaxLines == 4
\* The warm-up line count SpecSort runs the Reorderer with: WARMUP_LINES
\* scaled down so that draining starts inside the bounded input.
SortWarmup == 2
\* Number of packets of the flow parse_data is fed in SpecCorrelate.
MaxPkts == 4
\* Number of input lines parse_flows_file reads in SpecClassify.
MaxClsLines == 3
\* Number of packets of the ground-truth flows of SpecLoss.
MaxFlowLen == 3
\* Scaled max_flow_plots of SpecCap.
CapPlots == 2
\* Number of flows of SpecCap.
MaxCapFlows == 4
\* Largest timestamp of the maps of SpecThroughput.
MaxThrTime == 5
\* Last 100 ms bucket of the first second in the maps of SpecStats.
MaxStatTime == 3
\* Number of packets of the flows of SpecCross.
CrossLen == 3
\* Largest latency of a packet of SpecCross, in ticks.
MaxDelay == 4
\* Number of input lines of SpecFingerprint.
MaxFpLines == 2
\* Number of input lines of SpecNat.
MaxNatLines == 3
\* Collision steps (1e-10 s) per tick of the capture clock.
Tick == 10

(***************************************************************************)
(* Program constants.                                                      *)
(***************************************************************************)
\* pcap_sort.py:85  if linecount > 1000
WARMUP_LINES == 1000

(***************************************************************************)
(* Input lines.  A line is the token list x = line.split(): n is len(x),   *)
(* tk says how float(x[0]) behaves ("num": a finite number ts, "bad":      *)
(* ValueError, "inf": parses to inf/nan), the other fields are x[1]..x[9],  *)
(* extra holds the tokens after x[9].  The payload dump x[9] is a sequence *)
(* of characters: 0..15 are the hex digits, 16 is a character that is not  *)
(* a hex digit.                                                            *)
(***************************************************************************)
Line(n, tk, ts, ifn, src, dst, proto, dscp, ecn, id, len, data, extra) ==
  [n |-> n, tk |-> tk, ts |-> ts, ifn |-> ifn, src |-> src, dst |-> dst,
   proto |-> proto, dscp |-> dscp, ecn |-> ecn, id |-> id, len |-> len,
   data |-> data, extra |-> extra]

BlankLine == Line(0, "num", 0, "", "", "", 0, 0, 0, 0, 0, <<>>, <<>>)

\* A plain 10-field record as the Reorderer sees it: only x[0], x[1] matter.
Rec(ts, ifn) == Line(10, "num", ts, ifn, "s", "d", 6, 0, 0, 0, 1, <<>>, <<>>)

SortIfs == {"a", "b"}
SortTimes == 0..2

WellFormedSortLines == {Rec(ts, ifn) : ts \in SortTimes, ifn \in SortIfs}

MalformedSortLines ==
  { BlankLine,
    Line(1, "num", 1, "", "", "", 0, 0, 0, 0, 0, <<>>, <<>>),      \* a single token
    Line(5, "num", 1, "a", "s", "d", 6, 0, 0, 0, 0, <<>>, <<>>),   \* 5 fields
    Line(10, "bad", 0, "a", "s", "d", 6, 0, 0, 0, 1, <<>>, <<>>),  \* x[0] = "abc"
    Line(10, "inf", 0, "b", "s", "d", 6, 0, 0, 0, 1, <<>>, <<>>) } \* x[0] = "inf"

SortLines == WellFormedSortLines \cup MalformedSortLines

(***************************************************************************)
(* State.                                                                  *)
(***************************************************************************)
VARIABLES
  linecount,   \* pcap_sort.py linecount
  if_buffer,   \* pcap_sort.py if_buffer: ifname -> FIFO of lines
  if_order,    \* insertion order of if_buffer's keys (dict iteration order)
  stdout,      \* the lines printed so far
  sort_in,     \* the lines read so far
  sort_pc      \* "read", "done", or the uncaught exception that ended the run

sortVars == <<linecount, if_buffer, if_order, stdout, sort_in, sort_pc>>

VARIABLES
  parsed_data,     \* library.py parsed_data: flows in dict order, [id, pkts]
  flow_idx,        \* parse_data: position of `flow` in parsed_data
  pkt_idx,         \* parse_data: packets of the flow processed so far (i)
  pkt_times,       \* NSI packets waiting for their CMCI copy: packet_id -> ts
  pkt_times2,      \* CMCI packets waiting for their NSI copy: packet_id -> ts
  latency1,        \* NSI-anchored latency by NSI timestamp
  latency2,        \* CMCI-anchored latency by CMCI timestamp
  pkt_size1, pkt_size2,
  dscp31, dscp32,  \* sanctioned-packet latencies
  CE_size1, CE_size2,
  total_packets1, total_packets2,
  dscp1, dscp2, ecn1, ecn2,
  up_data, down_data,
  matched,         \* history: the matches found in the flow, [pid, nsi, cmci]
  corr_pc          \* "loop", "decided", "done", or the uncaught exception

flowLocals == <<pkt_times, pkt_times2, latency1, latency2, pkt_size1, pkt_size2,
                dscp31, dscp32, CE_size1, CE_size2, total_packets1,
                total_packets2, dscp1, dscp2, ecn1, ecn2, matched>>

corrVars == <<parsed_data, flow_idx, pkt_idx, flowLocals, up_data, down_data,
              corr_pc>>

VARIABLES
  cls_in,      \* the lines parse_flows_file has read so far
  cls_pc       \* "read" or "done"

clsVars == <<cls_in, cls_pc>>

VARIABLE
  stdin        \* the input lines not yet read, when the input is fixed

VARIABLES
  pkt_size_arg,  \* get_throughput: pkt_size, timestamp -> frame length
  interval_arg,  \* get_throughput: interval
  thr_ret,       \* get_throughput: the returned (bps_array, end_t, start_t)
  thr_pc,        \* "idle", "call", "returned"
  t_steadystate, \* calculate_stats: its argument t_steadystate (seconds)
  stats_ret,     \* calculate_stats: the throughput part of the returned list
  stats_pc       \* "idle", "call", "returned", "IndexError"

calcVars == <<t_steadystate, stats_ret, stats_pc>>

statVars == <<pkt_size_arg, interval_arg, thr_ret, thr_pc, calcVars>>

vars == <<sortVars, clsVars, corrVars, stdin, statVars>>

(***************************************************************************)
(* pcap_sort.py                                                            *)
(***************************************************************************)
\* mutant of dataReady: drains as soon as some buffer holds a line
dataReadyAny(buf) == \E i \in DOMAIN buf : Len(buf[i]) # 0

\* lines 24-30 / 48-54: every known buffer is non-empty (True for no buffers)
dataReady(buf) == \A i \in DOMAIN buf : Len(buf[i]) # 0

\* mutant of dataRemaining: the flush needs every buffer to hold a line
dataRemainingAll(buf) == \A i \in DOMAIN buf : Len(buf[i]) > 0

dataRemaining(buf) == \E i \in DOMAIN buf : Len(buf[i]) > 0

\* lines 34-42: scan the heads in dict order for the lowest timestamp.
\* acc = [inf, ts, name, err]: lowest_ts (inf at first), lowest_ts_ifname.
RECURSIVE ScanHeads(_, _, _, _)
ScanHeads(buf, order, k, acc) ==
  IF k > Len(order) \/ acc.err # "none" THEN acc
  ELSE LET ifname == order[k]
           q == buf[ifname]
       IN IF Len(q) = 0 THEN ScanHeads(buf, order, k + 1, acc)
          ELSE IF q[1].tk = "bad"
               THEN [acc EXCEPT !.err = "ValueError"]
          ELSE IF q[1].tk = "inf"
               THEN ScanHeads(buf, order, k + 1, acc)
          ELSE IF acc.inf \/ q[1].ts < acc.ts
               THEN ScanHeads(buf, order, k + 1,
                      [inf |-> FALSE, ts |-> q[1].ts, name |-> ifname, err |-> "none"])
          ELSE ScanHeads(buf, order, k + 1, acc)

\* mutant of lowest: the scan keeps the last head, not the lowest
lowestLast(buf, order) ==
  LET nonempty == SelectSeq(order, LAMBDA i : Len(buf[i]) > 0)
  IN IF nonempty = <<>>
     THEN [inf |-> TRUE, ts |-> 0, name |-> "", err |-> "none"]
     ELSE [inf |-> FALSE, ts |-> buf[nonempty[Len(nonempty)]][1].ts,
           name |-> nonempty[Len(nonempty)], err |-> "none"]

lowest(buf, order) ==
  ScanHeads(buf, order, 1, [inf |-> TRUE, ts |-> 0, name |-> "", err |-> "none"])

\* lines 21-54: outputs(doneReading) on (if_buffer, stdout); err names the
\* exception that escapes, "none" when the loop ends normally.
RECURSIVE outputs(_, _, _, _)
outputs(doneReading, buf, order, out) ==
  IF ~((doneReading /\ dataRemaining(buf)) \/ dataReady(buf))
  THEN [buf |-> buf, out |-> out, err |-> "none"]
  ELSE LET low == lowest(buf, order)
       IN IF low.err # "none"
          THEN [buf |-> buf, out |-> out, err |-> low.err]
          ELSE IF low.name \notin DOMAIN buf      \* if_buffer[''] : KeyError
          THEN [buf |-> buf, out |-> out, err |-> "KeyError"]
          ELSE outputs(doneReading,
                       [buf EXCEPT ![low.name] = Tail(@)],
                       order,
                       Append(out, buf[low.name][1]))

\* lines 76-82: buffer the line under x[1]
Buffered(buf, x) ==
  IF x.ifn \in DOMAIN buf
  THEN [buf EXCEPT ![x.ifn] = Append(@, x)]
  ELSE buf @@ (x.ifn :> <<x>>)

\* lines 61-86: one iteration of the read loop on line x; warmup is the
\* line count of line 85
ReadLine(x, warmup) ==
  /\ sort_pc = "read"
  /\ linecount' = linecount + 1
  /\ sort_in' = Append(sort_in, x)
  /\ IF x.n = 1
     THEN \* x[1] on a one-token line
          /\ sort_pc' = "IndexError"
          /\ UNCHANGED <<if_buffer, if_order, stdout>>
     ELSE LET buf == IF x.n = 0 THEN if_buffer ELSE Buffered(if_buffer, x)
              ord == IF x.n = 0 \/ x.ifn \in DOMAIN if_buffer
                     THEN if_order ELSE Append(if_order, x.ifn)
              res == IF linecount + 1 > warmup
                     THEN outputs(FALSE, buf, ord, stdout)
                     ELSE [buf |-> buf, out |-> stdout, err |-> "none"]
          IN /\ if_buffer' = res.buf
             /\ if_order' = ord
             /\ stdout' = res.out
             /\ sort_pc' = IF res.err = "none" THEN "read" ELSE res.err

\* lines 88-90: end of input
EndOfInput ==
  /\ sort_pc = "read"
  /\ LET res == IF Len(if_order) > 0
                THEN outputs(TRUE, if_buffer, if_order, stdout)
                ELSE [buf |-> if_buffer, out |-> stdout, err |-> "none"]
     IN /\ if_buffer' = res.buf
        /\ stdout' = res.out
        /\ sort_pc' = IF res.err = "none" THEN "done" ELSE res.err
  /\ UNCHANGED <<linecount, if_order, sort_in>>

SortStart ==
  /\ linecount = 0
  /\ if_buffer = <<>>
  /\ if_order = <<>>
  /\ stdout = <<>>
  /\ sort_in = <<>>
  /\ sort_pc = "read"

(***************************************************************************)
(* library.py parse_data                                                   *)
(***************************************************************************)
NsiName == "nsi"      \* the if_name argument (multiflow.py nsi_name)
CmciName == "cmci"

\* Python dicts as functions
EmptyMap == [k \in {} |-> 0]

\* mutant of Put: an existing key keeps its value
PutKeepFirst(d, k, v) ==
  [j \in DOMAIN d \cup {k} |-> IF j \in DOMAIN d THEN d[j] ELSE v]

\* d[k] = v
Put(d, k, v) == [j \in DOMAIN d \cup {k} |-> IF j = k THEN v ELSE d[j]]

\* mutant of Pop: the entry stays
PopNone(d, k) == d

\* d.pop(k)
Pop(d, k) == [j \in DOMAIN d \ {k} |-> d[j]]

\* try: d[k] += 1  except KeyError: d[k] = 1
Incr(d, k) == Put(d, k, IF k \in DOMAIN d THEN d[k] + 1 ELSE 1)

\* mutant of FreeIndex: no collision handling
FreeIndexNone(d, index) == index

\* while (index in latency): index += 0.0000000001
RECURSIVE FreeIndex(_, _)
FreeIndex(d, index) ==
  IF index \in DOMAIN d THEN FreeIndex(d, index + 1) ELSE index

RECURSIVE SumOver(_, _)
SumOver(d, S) ==
  IF S = {} THEN 0
  ELSE LET k == CHOOSE j \in S : TRUE IN d[k] + SumOver(d, S \ {k})

\* mutant of MeanPositive: a zero mean counted as downstream
MeanNonNegative(d) == SumOver(d, DOMAIN d) >= 0

\* np.mean(latency_a) > 0 for a non-empty array: the sum decides the sign
MeanPositive(d) == SumOver(d, DOMAIN d) > 0

MinKey(d) == CHOOSE k \in DOMAIN d : \A j \in DOMAIN d : k <= j

MaxKey(d) == CHOOSE k \in DOMAIN d : \A j \in DOMAIN d : k >= j

\* A packet of a flow's list: x[0:2] + x[5:9] + [packet_id] (library.py:87).
\* dscp/ecn -1 stand for a field int() cannot parse.
Pkt(tk, ts, ifn, dscp, ecn, id, len, pid) ==
  [tk |-> tk, ts |-> ts, ifn |-> ifn, dscp |-> dscp, ecn |-> ecn, id |-> id,
   len |-> len, pid |-> pid]

(***************************************************************************)
(* library.py parse_flows_file                                             *)
(***************************************************************************)
\* Python slices s[a:b] and s[a:] for 0 <= a <= b
Slice(s, a, b) == SubSeq(s, a + 1, IF b < Len(s) THEN b ELSE Len(s))

SliceFrom(s, a) == SubSeq(s, a + 1, Len(s))

\* int(s, 16) fails on the empty string and on a character that is no digit
HexOk(s) == s # <<>> /\ \A i \in 1..Len(s) : s[i] \in 0..15

RECURSIVE HexVal(_)
HexVal(s) ==
  IF s = <<>> THEN 0 ELSE 16 * HexVal(SubSeq(s, 1, Len(s) - 1)) + s[Len(s)]

\* lines 50-57
ProtoName(p) ==
  IF p = 6 THEN "TCP" ELSE IF p = 17 THEN "UDP" ELSE IF p = 1 THEN "ICMP" ELSE "UNK"

\* x[-1]
LastToken(x) == IF x.extra = <<>> THEN x.data ELSE x.extra[Len(x.extra)]

\* lines 46, 59-68: does the line pass the field-count and port checks
Accepted(x) ==
  /\ ~(x.n < 10)
  /\ \/ ProtoName(x.proto) = "ICMP"
     \/ LET ports == Slice(LastToken(x), 0, 8)
        IN /\ ports # <<>>
           /\ HexOk(Slice(ports, 0, 4))
           /\ HexOk(SliceFrom(ports, 4))

\* lines 59-68: the two ports as numbers
SrcPort(x) ==
  IF ProtoName(x.proto) = "ICMP" THEN 0 ELSE HexVal(Slice(Slice(LastToken(x), 0, 8), 0, 4))

DstPort(x) ==
  IF ProtoName(x.proto) = "ICMP" THEN 0 ELSE HexVal(SliceFrom(Slice(LastToken(x), 0, 8), 4))

\* mutant of PacketId: the payload is not cut to 120 characters
PacketIdUncut(x) ==
  IF ProtoName(x.proto) = "TCP"
  THEN Slice(x.data, 0, 32) \o SliceFrom(x.data, 36)
  ELSE IF ProtoName(x.proto) = "UDP"
  THEN Slice(x.data, 0, 12) \o SliceFrom(x.data, 16)
  ELSE x.data

\* mutant of PacketId: the checksum is left in
PacketIdWithChecksum(x) == Slice(x.data, 0, 120)

\* lines 70-80: hash() of the first 120 characters without the checksum.
\* The hash is taken to be collision free: it is the hashed string itself.
PacketId(x) ==
  LET payload == Slice(x.data, 0, 120)
  IN IF ProtoName(x.proto) = "TCP"
     THEN Slice(payload, 0, 32) \o SliceFrom(payload, 36)
     ELSE IF ProtoName(x.proto) = "UDP"
     THEN Slice(payload, 0, 12) \o SliceFrom(payload, 16)
     ELSE payload

\* line 83
FlowId(x) ==
  [proto |-> ProtoName(x.proto), ipsrc |-> x.src, src |-> SrcPort(x),
   ipdst |-> x.dst, dst |-> DstPort(x)]

\* lines 87/90: x[0:2] + x[5:9] + [packet_id]
ToPkt(x) == Pkt(x.tk, x.ts, x.ifn, x.dscp, x.ecn, x.id, x.len, PacketId(x))

\* lines 143-150
getProto(flow_id) == flow_id.proto

\* mutant of getSrc: the address without the port
getSrcAddress(flow_id) == <<flow_id.ipsrc>>

getSrc(flow_id) == <<flow_id.ipsrc, flow_id.src>>

getDst(flow_id) == <<flow_id.ipdst, flow_id.dst>>

FlowPos(pd, id) == {k \in 1..Len(pd) : pd[k].id = id}

\* lines 85-90: append the packet to its flow, creating the flow if needed
Classified(pd, x) ==
  IF FlowPos(pd, FlowId(x)) # {}
  THEN LET k == CHOOSE j \in FlowPos(pd, FlowId(x)) : TRUE
       IN [pd EXCEPT ![k].pkts = Append(@, ToPkt(x))]
  ELSE Append(pd, [id |-> FlowId(x), pkts |-> <<ToPkt(x)>>])

\* The decimal text of a timestamp, "<seconds>.<fraction>" with a fixed
\* number of fraction digits (two here, a second being 100 units), as
\* characters ordered like ASCII: 0 is ".", 1..10 are "0".."9", 11 stands
\* for a letter.
UnitsPerSecond == 100

RECURSIVE Digits(_)
Digits(n) ==
  IF n < 10 THEN <<n + 1>> ELSE Append(Digits(n \div 10), (n % 10) + 1)

TsText(p) ==
  IF p.tk # "num" THEN <<11>>
  ELSE Digits(p.ts \div UnitsPerSecond) \o <<0>>
       \o <<((p.ts % UnitsPerSecond) \div 10) + 1, (p.ts % 10) + 1>>

\* Python's order on strings
RECURSIVE TextLess(_, _)
TextLess(s, t) ==
  IF t = <<>> THEN FALSE
  ELSE IF s = <<>> THEN TRUE
  ELSE IF Head(s) # Head(t) THEN Head(s) < Head(t)
  ELSE TextLess(Tail(s), Tail(t))

\* the interface names as text: "cmci" < "nsi"
IfText(ifn) == IF ifn = "cmci" THEN <<11, 1>> ELSE <<11, 2>>

\* Python's order on the packet lists [ts, ifname, dscp, ecn, id, len,
\* packet_id], all strings; the one-character numeric fields compare like
\* their values.  Packets equal up to packet_id keep their order.
PktLess(p, q) ==
  IF TsText(p) # TsText(q) THEN TextLess(TsText(p), TsText(q))
  ELSE IF p.ifn # q.ifn THEN TextLess(IfText(p.ifn), IfText(q.ifn))
  ELSE IF p.dscp # q.dscp THEN p.dscp < q.dscp
  ELSE IF p.ecn # q.ecn THEN p.ecn < q.ecn
  ELSE IF p.id # q.id THEN p.id < q.id
  ELSE IF p.len # q.len THEN p.len < q.len
  ELSE FALSE

\* list.sort(): stable
RECURSIVE InsertPkt(_, _)
InsertPkt(sorted, p) ==
  IF sorted = <<>> THEN <<p>>
  ELSE IF PktLess(p, sorted[Len(sorted)])
  THEN Append(InsertPkt(SubSeq(sorted, 1, Len(sorted) - 1), p), sorted[Len(sorted)])
  ELSE Append(sorted, p)

RECURSIVE SortPkts(_)
SortPkts(l) ==
  IF l = <<>> THEN <<>>
  ELSE InsertPkt(SortPkts(SubSeq(l, 1, Len(l) - 1)), l[Len(l)])

\* mutant of MergedPkts: the second half replaces the first
MergedPktsLost(pkts1, pkts2) == SortPkts(pkts2)

\* lines 126, 128: extend, then sort
MergedPkts(pkts1, pkts2) == SortPkts(pkts1 \o pkts2)

IfNames(pkts) == {pkts[i].ifn : i \in 1..Len(pkts)}

\* lines 100-111: the flows seen on one interface only, in dict order
SingleIfFlows(pd) ==
  SelectSeq([k \in 1..Len(pd) |-> [id |-> pd[k].id, ifn |-> pd[k].pkts[1].ifn,
                                   single |-> Cardinality(IfNames(pd[k].pkts)) = 1]],
            LAMBDA e : e.single)

\* lines 118-124: may flow1 be joined with flow2 (alive: ifname not deleted)
Joinable(f1, f2, alive) ==
  /\ f1.id \in alive
  /\ f2.id \in alive
  /\ f1.id # f2.id
  /\ f1.ifn # f2.ifn
  /\ getProto(f1.id) = getProto(f2.id)
  /\ (getSrc(f1.id) = getSrc(f2.id) \/ getDst(f1.id) = getDst(f2.id))

\* lines 126-127: flow2's packets move into flow1, flow2 is removed
Joined(pd, id1, id2) ==
  LET k1 == CHOOSE j \in FlowPos(pd, id1) : TRUE
      k2 == CHOOSE j \in FlowPos(pd, id2) : TRUE
      merged == [pd EXCEPT ![k1].pkts = MergedPkts(pd[k1].pkts, pd[k2].pkts)]
  IN SubSeq(merged, 1, k2 - 1) \o SubSeq(merged, k2 + 1, Len(merged))

\* mutant of FirstCandidate: the last eligible flow is taken
LastCandidate(cand) == CHOOSE j \in cand : \A i \in cand : j >= i

\* lines 117-133: the inner loop stops at the first eligible flow2
FirstCandidate(cand) == CHOOSE j \in cand : \A i \in cand : j <= i

\* lines 114-133: the outer loop from its k-th flow on
RECURSIVE JoinFrom(_, _, _, _, _)
JoinFrom(k, single, pd, alive, if_name) ==
  IF k > Len(single) THEN pd
  ELSE LET flow1 == single[k]
           cand == {j \in 1..Len(single) : Joinable(flow1, single[j], alive)}
       IN IF flow1.id \in alive /\ flow1.ifn = if_name /\ cand # {}
          THEN LET flow2 == single[FirstCandidate(cand)]
               IN JoinFrom(k + 1, single, Joined(pd, flow1.id, flow2.id),
                           alive \ {flow1.id, flow2.id}, if_name)
          ELSE JoinFrom(k + 1, single, pd, alive, if_name)

\* lines 99-133
NatJoin(pd, if_name) ==
  LET single == SingleIfFlows(pd)
  IN JoinFrom(1, single, pd, {single[k].id : k \in 1..Len(single)}, if_name)

\* lines 32-90: one line of the input
ClassifyLine(x) ==
  /\ cls_pc = "read"
  /\ cls_in' = Append(cls_in, x)
  /\ parsed_data' = IF Accepted(x) THEN Classified(parsed_data, x) ELSE parsed_data
  /\ UNCHANGED cls_pc

\* lines 99-140 at the end of the input, followed by multiflow.py line 44:
\* the flows go to parse_data
ClassifyEOF ==
  /\ cls_pc = "read"
  /\ cls_pc' = "done"
  /\ parsed_data' = NatJoin(parsed_data, CmciName)
  /\ corr_pc' = IF Len(parsed_data') = 0 THEN "done" ELSE "loop"
  /\ UNCHANGED cls_in

ClsStart ==
  /\ cls_in = <<>>
  /\ cls_pc = "read"

(***************************************************************************)
(* library.py parse_data, continued                                        *)
(***************************************************************************)
\* lines 173-188: the per-flow locals
FreshLocals ==
  /\ pkt_times = EmptyMap /\ pkt_times2 = EmptyMap
  /\ latency1 = EmptyMap /\ latency2 = EmptyMap
  /\ pkt_size1 = EmptyMap /\ pkt_size2 = EmptyMap
  /\ dscp31 = EmptyMap /\ dscp32 = EmptyMap
  /\ CE_size1 = EmptyMap /\ CE_size2 = EmptyMap
  /\ total_packets1 = 0 /\ total_packets2 = 0
  /\ dscp1 = EmptyMap /\ dscp2 = EmptyMap
  /\ ecn1 = EmptyMap /\ ecn2 = EmptyMap
  /\ matched = <<>>

\* lines 222-224 / 260-262: is the matched packet recorded as sanctioned.
\* int(data[3] == 3) compares the string data[3] with the number 3: always 0.
Sanctioned(data) == data.dscp = 3 /\ (data.ecn = 1 \/ FALSE)

\* mutant of LatencyOnNsi: the sign is not turned
LatencyOnNsiUnturned(nsi_ts, cmci_ts) == nsi_ts - cmci_ts

\* line 218: -(float(data[0]) - pkt_times2[packet_id])
LatencyOnNsi(nsi_ts, cmci_ts) == -(nsi_ts - cmci_ts)

\* lines 207-239: an NSI-side packet whose CMCI copy is pending
MatchOnNsi(data) ==
  LET packet_id == data.pid
      index1 == FreeIndex(latency1, data.ts)
      index2 == FreeIndex(latency2, pkt_times2[packet_id])
      lat == LatencyOnNsi(data.ts, pkt_times2[packet_id])
  IN /\ latency1' = Put(latency1, index1, lat)
     /\ latency2' = Put(latency2, index2, lat)
     /\ pkt_size1' = Put(pkt_size1, index1, data.len)
     /\ pkt_size2' = Put(pkt_size2, index2, data.len)
     /\ matched' = Append(matched, [pid |-> packet_id, nsi |-> data.ts,
                                   cmci |-> pkt_times2[packet_id]])
     /\ UNCHANGED <<pkt_times, total_packets1, dscp1, ecn1>>
     /\ IF data.dscp = -1 \/ data.ecn = -1
        THEN \* int(data[2]) or int(data[3]) raises
             /\ corr_pc' = "ValueError"
             /\ UNCHANGED <<pkt_times2, dscp31, dscp32, CE_size1, CE_size2,
                            total_packets2, dscp2, ecn2, pkt_idx>>
        ELSE /\ IF Sanctioned(data)
                THEN /\ dscp31' = Put(dscp31, index1, data.ts - pkt_times2[packet_id])
                     /\ dscp32' = Put(dscp32, index2, data.ts - pkt_times2[packet_id])
                ELSE UNCHANGED <<dscp31, dscp32>>
             /\ IF data.ecn = 3
                THEN /\ CE_size1' = Put(CE_size1, index1, data.len)
                     /\ CE_size2' = Put(CE_size2, index2, data.len)
                ELSE UNCHANGED <<CE_size1, CE_size2>>
             /\ pkt_times2' = Pop(pkt_times2, packet_id)
             /\ total_packets2' = total_packets2 + 1
             /\ dscp2' = Incr(dscp2, data.dscp)
             /\ ecn2' = Incr(ecn2, data.ecn)
             /\ pkt_idx' = pkt_idx + 1
             /\ UNCHANGED corr_pc

\* lines 245-277: a CMCI-side packet whose NSI copy is pending
MatchOnCmci(data) ==
  LET packet_id == data.pid
      index1 == FreeIndex(latency1, pkt_times[packet_id])
      index2 == FreeIndex(latency2, data.ts)
      lat == data.ts - pkt_times[packet_id]
  IN /\ latency1' = Put(latency1, index1, lat)
     /\ latency2' = Put(latency2, index2, lat)
     /\ pkt_size1' = Put(pkt_size1, index1, data.len)
     /\ pkt_size2' = Put(pkt_size2, index2, data.len)
     /\ matched' = Append(matched, [pid |-> packet_id, nsi |-> pkt_times[packet_id],
                                   cmci |-> data.ts])
     /\ UNCHANGED <<pkt_times2, total_packets2, dscp2, ecn2>>
     /\ IF data.dscp = -1 \/ data.ecn = -1
        THEN /\ corr_pc' = "ValueError"
             /\ UNCHANGED <<pkt_times, dscp31, dscp32, CE_size1, CE_size2,
                            total_packets1, dscp1, ecn1, pkt_idx>>
        ELSE /\ IF Sanctioned(data)
                THEN /\ dscp31' = Put(dscp31, index1, lat)
                     /\ dscp32' = Put(dscp32, index2, lat)
                ELSE UNCHANGED <<dscp31, dscp32>>
             /\ IF data.ecn = 3
                THEN /\ CE_size1' = Put(CE_size1, index1, data.len)
                     /\ CE_size2' = Put(CE_size2, index2, data.len)
                ELSE UNCHANGED <<CE_size1, CE_size2>>
             /\ pkt_times' = Pop(pkt_times, packet_id)
             /\ total_packets1' = total_packets1 + 1
             /\ dscp1' = Incr(dscp1, data.dscp)
             /\ ecn1' = Incr(ecn1, data.ecn)
             /\ pkt_idx' = pkt_idx + 1
             /\ UNCHANGED corr_pc

matchState == <<latency1, latency2, pkt_size1, pkt_size2, dscp31, dscp32,
                CE_size1, CE_size2, total_packets1, total_packets2,
                dscp1, dscp2, ecn1, ecn2, matched>>

\* lines 193-281: the loop body on packet data = x[i]
CorrStep(data) ==
  IF data.tk # "num"
  THEN \* float(data[0]) raises in whichever branch is taken
       /\ corr_pc' = "ValueError"
       /\ UNCHANGED <<flowLocals, pkt_idx>>
  ELSE IF data.ifn = NsiName
  THEN IF data.pid \in DOMAIN pkt_times2
       THEN MatchOnNsi(data)
       ELSE /\ pkt_times' = Put(pkt_times, data.pid, data.ts)
            /\ pkt_idx' = pkt_idx + 1
            /\ UNCHANGED <<pkt_times2, matchState, corr_pc>>
  ELSE IF data.pid \in DOMAIN pkt_times
       THEN MatchOnCmci(data)
       ELSE /\ pkt_times2' = Put(pkt_times2, data.pid, data.ts)
            /\ pkt_idx' = pkt_idx + 1
            /\ UNCHANGED <<pkt_times, matchState, corr_pc>>

\* mutant of Trimmed: no edge trimming
TrimmedNone(pending, first, last) == pending

\* lines 313-315 etc.: drop the pending packets outside [first, last]
Trimmed(pending, first, last) ==
  [k \in {j \in DOMAIN pending : ~(pending[j] < first \/ pending[j] > last)}
     |-> pending[k]]

\* the 9-element list stored per flow (lines 331 and 370)
FlowData(e0, e1, e2, e3, e4, e5, e6, e7, e8) ==
  [dropped |-> e0, latency |-> e1, pkt_size |-> e2, total |-> e3,
   unmatched |-> e4, dscp |-> e5, ecn |-> e6, dscp3 |-> e7, CE_size |-> e8]

\* lines 288-331: the flow is downstream
DecideDownstream(flow) ==
  LET first_match_nsi_timestamp == MinKey(latency1)
      last_match_nsi_timestamp == MaxKey(latency1)
      first_match_cmci_timestamp ==
        first_match_nsi_timestamp + latency1[first_match_nsi_timestamp]
      last_match_cmci_timestamp ==
        last_match_nsi_timestamp + latency1[last_match_nsi_timestamp]
      pt == Trimmed(pkt_times, first_match_nsi_timestamp, last_match_nsi_timestamp)
      pt2 == Trimmed(pkt_times2, first_match_cmci_timestamp, last_match_cmci_timestamp)
      dropped_packets == Cardinality(DOMAIN pt)
      unmatched_packets == Cardinality(DOMAIN pt2)
  IN /\ pkt_times' = pt
     /\ pkt_times2' = pt2
     /\ down_data' = Put(down_data, flow,
          FlowData(pt, latency1, pkt_size1,
                   total_packets1 + unmatched_packets + dropped_packets,
                   unmatched_packets, dscp1, ecn1, dscp31, CE_size1))
     /\ UNCHANGED <<up_data, latency2>>

\* lines 333-370: the flow is upstream
DecideUpstream(flow) ==
  LET flipped == [k \in DOMAIN latency2 |-> -1 * latency2[k]]
      first_match_cmci_timestamp == MinKey(flipped)
      first_match_nsi_timestamp ==
        first_match_cmci_timestamp + flipped[first_match_cmci_timestamp]
      last_match_cmci_timestamp == MaxKey(flipped)
      last_match_nsi_timestamp ==
        last_match_cmci_timestamp + flipped[last_match_cmci_timestamp]
      pt2 == Trimmed(pkt_times2, first_match_cmci_timestamp, last_match_cmci_timestamp)
      pt == Trimmed(pkt_times, first_match_nsi_timestamp, last_match_nsi_timestamp)
      dropped_packets == Cardinality(DOMAIN pt2)
      unmatched_packets == Cardinality(DOMAIN pt)
  IN /\ latency2' = flipped
     /\ pkt_times' = pt
     /\ pkt_times2' = pt2
     /\ up_data' = Put(up_data, flow,
          FlowData(pt2, flipped, pkt_size2,
                   total_packets2 + unmatched_packets + dropped_packets,
                   unmatched_packets, dscp2, ecn2, dscp32, CE_size2))
     /\ UNCHANGED down_data

\* lines 284-376: after the flow's last packet, decide its direction
FinishFlow ==
  /\ corr_pc = "loop"
  /\ flow_idx <= Len(parsed_data)
  /\ pkt_idx = Len(parsed_data[flow_idx].pkts)
  /\ IF DOMAIN latency1 # {}
     THEN IF MeanPositive(latency1)
          THEN DecideDownstream(parsed_data[flow_idx].id)
          ELSE DecideUpstream(parsed_data[flow_idx].id)
     ELSE UNCHANGED <<pkt_times, pkt_times2, latency2, up_data, down_data>>
  /\ corr_pc' = "decided"
  /\ UNCHANGED <<parsed_data, flow_idx, pkt_idx, latency1, pkt_size1, pkt_size2,
                 dscp31, dscp32, CE_size1, CE_size2, total_packets1,
                 total_packets2, dscp1, dscp2, ecn1, ecn2, matched>>

\* line 170 / 379: the next flow with fresh locals, or return
NextFlow ==
  /\ corr_pc = "decided"
  /\ flow_idx' = flow_idx + 1
  /\ pkt_idx' = 0
  /\ IF flow_idx < Len(parsed_data)
     THEN /\ pkt_times' = EmptyMap /\ pkt_times2' = EmptyMap
          /\ latency1' = EmptyMap /\ latency2' = EmptyMap
          /\ pkt_size1' = EmptyMap /\ pkt_size2' = EmptyMap
          /\ dscp31' = EmptyMap /\ dscp32' = EmptyMap
          /\ CE_size1' = EmptyMap /\ CE_size2' = EmptyMap
          /\ total_packets1' = 0 /\ total_packets2' = 0
          /\ dscp1' = EmptyMap /\ dscp2' = EmptyMap
          /\ ecn1' = EmptyMap /\ ecn2' = EmptyMap
          /\ matched' = <<>>
          /\ corr_pc' = "loop"
     ELSE corr_pc' = "done" /\ UNCHANGED flowLocals
  /\ UNCHANGED <<parsed_data, up_data, down_data>>

\* line 193: the next packet of the current flow
ProcessPacket ==
  /\ corr_pc = "loop"
  /\ flow_idx <= Len(parsed_data)
  /\ pkt_idx < Len(parsed_data[flow_idx].pkts)
  /\ CorrStep(parsed_data[flow_idx].pkts[pkt_idx + 1])
  /\ UNCHANGED <<parsed_data, flow_idx, up_data, down_data>>

\* plot_singleflow lines 801-828: the packet-count table.  Every percentage
\* is 100*count/total_packets on Python ints; the Drops row is always
\* computed, so the table exists exactly when total_packets is not 0.
PacketCountTable(fd) ==
  IF fd.total = 0
  THEN [err |-> "ZeroDivisionError", rows |-> <<>>]
  ELSE [err |-> "none",
        rows |-> << <<Cardinality(DOMAIN fd.dropped), fd.total>>,
                    <<fd.unmatched, fd.total>>,
                    <<fd.total, fd.total>> >>]

\* lines 168-169 and the first pass of line 170
CorrStart ==
  /\ flow_idx = 1
  /\ pkt_idx = 0
  /\ FreshLocals
  /\ up_data = EmptyMap
  /\ down_data = EmptyMap
  /\ corr_pc = IF Len(parsed_data) = 0 THEN "done" ELSE "loop"

\* parse_data not called yet
CorrIdle ==
  /\ flow_idx = 1
  /\ pkt_idx = 0
  /\ FreshLocals
  /\ up_data = EmptyMap
  /\ down_data = EmptyMap
  /\ corr_pc = "idle"

(***************************************************************************)
(* library.py get_throughput.  Its timestamps and its interval are whole   *)
(* numbers of one time unit, and the interval divides 8 times the bytes of  *)
(* every bucket, so that every bucket value is exact.                      *)
(***************************************************************************)
sys_maxsize == 2147483647   \* stands for sys.maxsize, above every bucket index

\* int(float(timestamp) / interval): int() truncates towards zero
Bucket(timestamp, interval) ==
  IF timestamp >= 0 THEN timestamp \div interval
  ELSE 0 - ((0 - timestamp) \div interval)

\* lines 419-423: the bytes of each occupied bucket
BytesPerBucket(pkt_size, interval) ==
  [b \in {Bucket(t, interval) : t \in DOMAIN pkt_size} |->
     SumOver(pkt_size, {t \in DOMAIN pkt_size : Bucket(t, interval) = b})]

\* lines 424-429: a running minimum from sys.maxsize and maximum from 0
RECURSIVE StartOf(_, _)
StartOf(S, start_t) ==
  IF S = {} THEN start_t
  ELSE LET t == CHOOSE x \in S : TRUE
       IN StartOf(S \ {t}, IF t < start_t THEN t ELSE start_t)

RECURSIVE EndOf(_, _)
EndOf(S, end_t) ==
  IF S = {} THEN end_t
  ELSE LET t == CHOOSE x \in S : TRUE
       IN EndOf(S \ {t}, IF t > end_t THEN t ELSE end_t)

\* mutant of get_throughput: the array starts at the first occupied bucket
get_throughput_from_start(pkt_size, interval) ==
  LET bytes == BytesPerBucket(pkt_size, interval)
      end_t == EndOf(DOMAIN bytes, 0)
      start_t == StartOf(DOMAIN bytes, sys_maxsize)
  IN [bps_array |-> [k \in 1..(end_t - start_t + 1) |->
                       IF k - 1 + start_t \in DOMAIN bytes
                       THEN (bytes[k - 1 + start_t] * 8) \div interval ELSE 0],
      end_t |-> end_t, start_t |-> start_t]

\* lines 414-438; bps_array[k] is the Python element k - 1
get_throughput(pkt_size, interval) ==
  LET bytes == BytesPerBucket(pkt_size, interval)
      bps == [t \in DOMAIN bytes |-> (bytes[t] * 8) \div interval]
      end_t == EndOf(DOMAIN bps, 0)
      start_t == StartOf(DOMAIN bps, sys_maxsize)
  IN [bps_array |-> [k \in 1..(end_t + 1) |->
                       IF k - 1 \in DOMAIN bps THEN bps[k - 1] ELSE 0],
      end_t |-> end_t, start_t |-> start_t]

CallThroughput ==
  /\ thr_pc = "call"
  /\ thr_ret' = get_throughput(pkt_size_arg, interval_arg)
  /\ thr_pc' = "returned"
  /\ UNCHANGED <<pkt_size_arg, interval_arg, calcVars>>

\* np.sort on a list of numbers
RECURSIVE Sorted(_)
Sorted(a) ==
  IF a = <<>> THEN <<>>
  ELSE LET rest == Sorted(SubSeq(a, 1, Len(a) - 1))
           x == a[Len(a)]
           k == Cardinality({i \in 1..Len(rest) : rest[i] <= x})
       IN SubSeq(rest, 1, k) \o <<x>> \o SubSeq(rest, k + 1, Len(rest))

\* np.percentile(a, q) with q/100 = num/den, by linear interpolation between
\* the two nearest ranks; the value is returned times den
Percentile(a, num, den) ==
  LET s == Sorted(a)
      pos == num * (Len(a) - 1)
      lo == pos \div den
      frac == pos % den
  IN IF frac = 0 THEN s[lo + 1] * den
     ELSE s[lo + 1] * den + frac * (s[lo + 2] - s[lo + 1])

\* np.mean as the pair (sum, count)
Mean(a) == [sum |-> SumOver(a, DOMAIN a), n |-> Len(a)]

\* a[i:] and a[i:j] on Python lists
PyFrom(a, i) == SubSeq(a, i + 1, Len(a))

PySlice(a, i, j) == SubSeq(a, i + 1, IF j < Len(a) THEN j ELSE Len(a))

\* the time unit of calculate_stats is 100 ms
Interval1s == 10      \* get_throughput(pkt_size, 1.0)

Interval100ms == 1    \* get_throughput(pkt_size, 0.1)

\* lines 478-480: while bps_array_init[time_passed] < 0.9 * mean_bps_new;
\* -1 stands for the IndexError past the end of bps_array_init
RECURSIVE TimePassed(_, _, _)
TimePassed(bps_array_init, mean_bps_new, time_passed) ==
  IF time_passed >= Len(bps_array_init) THEN -1
  ELSE IF 10 * mean_bps_new.n * bps_array_init[time_passed + 1] < 9 * mean_bps_new.sum
  THEN TimePassed(bps_array_init, mean_bps_new, time_passed + 1)
  ELSE time_passed

\* lines 458-485: the throughput figures of calculate_stats
calculate_stats(pkt_size, t_ss) ==
  LET r1 == get_throughput(pkt_size, Interval1s)
      steady == PySlice(r1.bps_array, t_ss + r1.start_t, r1.end_t + 1)
      mean_bps == IF t_ss + r1.start_t < r1.end_t
                  THEN Mean(steady) ELSE Mean(r1.bps_array)
      p10_bps == IF t_ss + r1.start_t < r1.end_t
                 THEN Percentile(steady, 1, 1000) ELSE 0
      r2 == get_throughput(pkt_size, Interval100ms)
      bps_array == r2.bps_array
      from == t_ss * (Interval1s \div Interval100ms)
      mean_bps_new == IF Len(bps_array) > from
                      THEN Mean(PyFrom(bps_array, from))
                      ELSE [sum |-> 0, n |-> 1]
      bps_array_init == SelectSeq(bps_array, LAMBDA v : v > 0)
      time_passed == TimePassed(bps_array_init, mean_bps_new, 0)
  IN [mean_bps |-> mean_bps, p10_bps_x1000 |-> p10_bps,
      time_passed |-> time_passed, ramp_ms |-> time_passed * 100]

CallStats ==
  /\ stats_pc = "call"
  /\ stats_ret' = calculate_stats(pkt_size_arg, t_steadystate)
  /\ stats_pc' = IF stats_ret'.time_passed = -1 THEN "IndexError" ELSE "returned"
  /\ UNCHANGED <<pkt_size_arg, interval_arg, thr_ret, thr_pc, t_steadystate>>

NoStats == [mean_bps |-> [sum |-> 0, n |-> 1], p10_bps_x1000 |-> 0,
            time_passed |-> 0, ramp_ms |-> 0]

\* calculate_stats not called
StatsIdle ==
  /\ t_steadystate = 0
  /\ stats_ret = NoStats
  /\ stats_pc = "idle"

\* get_throughput not called
StatIdle ==
  /\ pkt_size_arg = EmptyMap
  /\ interval_arg = 1
  /\ thr_ret = [bps_array |-> <<>>, end_t |-> 0, start_t |-> 0]
  /\ thr_pc = "idle"
  /\ StatsIdle

(***************************************************************************)
(* SpecSort: the Reorderer on every input of at most MaxLines lines.       *)
(***************************************************************************)
SortRead ==
  /\ linecount < MaxLines
  /\ \E x \in SortLines : ReadLine(x, SortWarmup)
  /\ UNCHANGED <<clsVars, corrVars, stdin, statVars>>

SortEOF == EndOfInput /\ UNCHANGED <<clsVars, corrVars, stdin, statVars>>

SortInit == SortStart /\ ClsStart /\ StatIdle /\ parsed_data = <<>> /\ CorrIdle /\ stdin = <<>>

SortNext == SortRead \/ SortEOF

SpecSort == SortInit /\ [][SortNext]_vars

(***************************************************************************)
(* SpecCorrelate: parse_data on one flow whose packet list is any list of  *)
(* at most MaxPkts packets, in any order.  One tick of the capture clock   *)
(* is Tick collision steps.                                                *)
(***************************************************************************)
CorrTimes == {0, Tick, 2 * Tick}

CorrPids == {<<0>>, <<1>>}

\* CE is set on the way through the device: NSI copies ECT1, CMCI copies CE
WellFormedPkts ==
  {Pkt("num", ts, ifn, 3, IF ifn = NsiName THEN 1 ELSE 3, 0, 1, pid) :
     ts \in CorrTimes, ifn \in {NsiName, CmciName}, pid \in CorrPids}

MalformedPkts ==
  { Pkt("num", Tick, CmciName, -1, 0, 0, 1, <<0>>),   \* DSCP field "0,0"
    Pkt("bad", 0, NsiName, 0, 0, 0, 1, <<1>>) }       \* timestamp field "abc"

CorrPkts == WellFormedPkts \cup MalformedPkts

TheFlow == "F"

\* the flow's list grows by one packet, which the loop body then processes
FeedPacket ==
  /\ corr_pc = "loop"
  /\ pkt_idx = Len(parsed_data[1].pkts)
  /\ pkt_idx < MaxPkts
  /\ \E data \in CorrPkts :
       /\ parsed_data' = <<[id |-> TheFlow, pkts |-> Append(parsed_data[1].pkts, data)]>>
       /\ CorrStep(data)
  /\ UNCHANGED <<flow_idx, up_data, down_data, sortVars, clsVars, stdin, statVars>>

CorrFinish == FinishFlow /\ UNCHANGED <<sortVars, clsVars, stdin, statVars>>

CorrReturn == NextFlow /\ UNCHANGED <<sortVars, clsVars, stdin, statVars>>

CorrInit ==
  /\ SortStart
  /\ ClsStart
  /\ StatIdle
  /\ stdin = <<>>
  /\ parsed_data = <<[id |-> TheFlow, pkts |-> <<>>]>>
  /\ CorrStart

CorrNext == FeedPacket \/ CorrFinish \/ CorrReturn

SpecCorrelate == CorrInit /\ [][CorrNext]_vars

(***************************************************************************)
(* SpecClassify: parse_flows_file on every input of at most MaxClsLines    *)
(* lines.  A server S sends through a NAT gateway: its packets carry the   *)
(* gateway's address W on the NSI side and the client's address C on the   *)
(* CMCI side.                                                              *)
(***************************************************************************)
\* ports 0x0050 -> 0x1f90, then one more payload character
PayloadA == <<0, 0, 5, 0, 1, 15, 9, 0, 10>>

WellFormedClsLines ==
  {Line(10, "num", ts, ifn, "S", dst, proto, 0, 1, 0, 1, PayloadA, <<>>) :
     ts \in {0, Tick}, ifn \in {NsiName, CmciName}, dst \in {"W", "C"},
     proto \in {6, 17}}

OddClsLines ==
  { \* ICMP, payload without hex ports: accepted
    Line(10, "num", 0, NsiName, "S", "W", 1, 0, 0, 0, 1, <<16, 16>>, <<>>),
    \* 11 tokens: the ports are read from the last one
    Line(11, "num", 0, CmciName, "S", "C", 6, 0, 0, 0, 1, <<16>>, <<PayloadA>>),
    \* 9 fields
    Line(9, "num", 0, NsiName, "S", "W", 6, 0, 0, 0, 1, <<>>, <<>>),
    \* a character that is no hex digit among the ports
    Line(10, "num", 0, NsiName, "S", "W", 6, 0, 0, 0, 1,
         <<0, 0, 16, 0, 1, 15, 9, 0, 10>>, <<>>),
    \* a payload of 4 characters: no destination port
    Line(10, "num", 0, CmciName, "S", "C", 17, 0, 0, 0, 1, <<0, 0, 5, 0>>, <<>>) }

ClsLines == WellFormedClsLines \cup OddClsLines

ClsRead ==
  /\ Len(cls_in) < MaxClsLines
  /\ \E x \in ClsLines : ClassifyLine(x)
  /\ UNCHANGED <<sortVars, flow_idx, pkt_idx, flowLocals, up_data, down_data,
                 corr_pc, stdin, statVars>>

ClsEOF ==
  /\ ClassifyEOF
  /\ UNCHANGED <<sortVars, flow_idx, pkt_idx, flowLocals, up_data, down_data, stdin, statVars>>

ClsInit == SortStart /\ ClsStart /\ StatIdle /\ parsed_data = <<>> /\ CorrIdle /\ stdin = <<>>

ClsNext == ClsRead \/ ClsEOF

SpecClassify == ClsInit /\ [][ClsNext]_vars

(***************************************************************************)
(* SpecPipeline: pcap_sort.py, then parse_flows_file, then parse_data, on  *)
(* one capture: five TCP packets of one flow on the NSI side at 0.0, 0.1,  *)
(* ..., 0.4 s and the same packets 0.05 s later on the CMCI side, the      *)
(* third one missing there.  0.05 s is one Tick.  The capture file holds   *)
(* the two interfaces' lines in any interleaving.                          *)
(***************************************************************************)
\* 40 characters: the ports, 24 more header characters, the checksum at
\* [32,36), then 4 characters that tell the packets apart
E2EPayload(k, cksum) ==
  <<0, 0, 5, 0, 1, 15, 9, 0>> \o [j \in 1..24 |-> 0]
    \o <<cksum, cksum, cksum, cksum>> \o <<0, 0, 0, k>>

E2ENsiLine(k) ==
  Line(10, "num", 2 * Tick * k, NsiName, "S", "C", 6, 0, 1, k, 1,
       E2EPayload(k, 1), <<>>)

E2ECmciLine(k) ==
  Line(10, "num", 2 * Tick * k + Tick, CmciName, "S", "C", 6, 0, 1, k, 1,
       E2EPayload(k, 2), <<>>)

E2ENsiStream == <<E2ENsiLine(0), E2ENsiLine(1), E2ENsiLine(2), E2ENsiLine(3), E2ENsiLine(4)>>

E2ECmciStream == <<E2ECmciLine(0), E2ECmciLine(1), E2ECmciLine(3), E2ECmciLine(4)>>

RECURSIVE Interleavings(_, _)
Interleavings(a, b) ==
  IF a = <<>> THEN {b}
  ELSE IF b = <<>> THEN {a}
  ELSE {<<Head(a)>> \o l : l \in Interleavings(Tail(a), b)}
       \cup {<<Head(b)>> \o l : l \in Interleavings(a, Tail(b))}

corrRest == <<flow_idx, pkt_idx, flowLocals, up_data, down_data>>

PipeSortRead ==
  /\ stdin # <<>>
  /\ ReadLine(Head(stdin), WARMUP_LINES)
  /\ stdin' = Tail(stdin)
  /\ UNCHANGED <<clsVars, corrVars, statVars>>

PipeSortEOF ==
  /\ stdin = <<>>
  /\ EndOfInput
  /\ UNCHANGED <<clsVars, corrVars, stdin, statVars>>

\* parse_flows_file reads what pcap_sort.py printed
PipeClsRead ==
  /\ sort_pc = "done"
  /\ Len(cls_in) < Len(stdout)
  /\ ClassifyLine(stdout[Len(cls_in) + 1])
  /\ UNCHANGED <<sortVars, corrRest, corr_pc, stdin, statVars>>

PipeClsEOF ==
  /\ sort_pc = "done"
  /\ Len(cls_in) = Len(stdout)
  /\ ClassifyEOF
  /\ UNCHANGED <<sortVars, corrRest, stdin, statVars>>

PipeProcess == ProcessPacket /\ UNCHANGED <<sortVars, clsVars, stdin, statVars>>

PipeFinish == FinishFlow /\ UNCHANGED <<sortVars, clsVars, stdin, statVars>>

PipeReturn == NextFlow /\ UNCHANGED <<sortVars, clsVars, stdin, statVars>>

PipeInit ==
  /\ SortStart /\ ClsStart /\ StatIdle /\ parsed_data = <<>> /\ CorrIdle
  /\ stdin \in Interleavings(E2ENsiStream, E2ECmciStream)

PipeNext ==
  \/ PipeSortRead \/ PipeSortEOF \/ PipeClsRead \/ PipeClsEOF
  \/ PipeProcess \/ PipeFinish \/ PipeReturn

SpecPipeline == PipeInit /\ [][PipeNext]_vars

(***************************************************************************)
(* SpecLoss: parse_data on ground-truth flows with one injected loss.  A   *)
(* flow of n packets with distinct fingerprints crosses the device with a  *)
(* fixed latency, downstream (NSI first) or upstream (CMCI first); one     *)
(* packet is removed from one side; the list holds the two sides' packets  *)
(* in any interleaving.                                                    *)
(***************************************************************************)
\* the sending-side timestamps: from 0, each gap none or one tick
RECURSIVE SendTimes(_)
SendTimes(n) ==
  IF n = 1 THEN {<<0>>}
  ELSE {Append(t, t[n - 1] + g) : t \in SendTimes(n - 1), g \in {0, Tick}}

Without(l, i) == SubSeq(l, 1, i - 1) \o SubSeq(l, i + 1, Len(l))

\* the two sides' lists: t the sending times, delta the latency
SideList(t, delta, ifn) == [k \in 1..Len(t) |-> Pkt("num", t[k] + delta, ifn, 0, 0, 0, 1, <<k>>)]

LossFlows ==
  UNION { UNION { UNION {
    LET snd == SideList(t, 0, IF down THEN NsiName ELSE CmciName)
        rcv == SideList(t, delta, IF down THEN CmciName ELSE NsiName)
    IN Interleavings(Without(snd, i), rcv) \cup Interleavings(snd, Without(rcv, i))
    : i \in 1..Len(t) } : t \in UNION {SendTimes(n) : n \in 2..MaxFlowLen} }
    : delta \in {Tick, 2 * Tick}, down \in BOOLEAN }

LossProcess == ProcessPacket /\ UNCHANGED <<sortVars, clsVars, stdin, statVars>>

LossFinish == FinishFlow /\ UNCHANGED <<sortVars, clsVars, stdin, statVars>>

LossReturn == NextFlow /\ UNCHANGED <<sortVars, clsVars, stdin, statVars>>

LossInit ==
  /\ SortStart /\ ClsStart /\ StatIdle /\ stdin = <<>>
  /\ parsed_data \in {<<[id |-> TheFlow, pkts |-> l]>> : l \in LossFlows}
  /\ CorrStart

LossNext == LossProcess \/ LossFinish \/ LossReturn

SpecLoss == LossInit /\ [][LossNext]_vars

(***************************************************************************)
(* multiflow.py: capping the number of flows plotted per direction.        *)
(***************************************************************************)
max_flow_plots == 20

min_pkts_per_flow == 0

OtherFlows == "other flows"

\* the keys of a parse_data output in insertion order: parse_data fills its
\* outputs in the order of the flows of parsed_data
KeyOrder(d, pd) ==
  SelectSeq([k \in 1..Len(pd) |-> pd[k].id], LAMBDA id : id \in DOMAIN d)

\* sorted(..., key=count, reverse=True) is stable: among equal counts the
\* insertion order is kept
InsertByCount(s, id, d) ==
  LET k == Cardinality({i \in 1..Len(s) : d[s[i]].total >= d[id].total})
  IN SubSeq(s, 1, k) \o <<id>> \o SubSeq(s, k + 1, Len(s))

RECURSIVE SortedByCount(_, _)
SortedByCount(order, d) ==
  IF order = <<>> THEN <<>>
  ELSE InsertByCount(SortedByCount(SubSeq(order, 1, Len(order) - 1), d),
                     order[Len(order)], d)

\* for num_flow_plots in range(0, limit): if count < min_pkts_per_flow: break
RECURSIVE NumFlowPlots(_, _, _, _, _)
NumFlowPlots(i, limit, sorted, d, last) ==
  IF i >= limit THEN last
  ELSE IF d[sorted[i + 1]].total < min_pkts_per_flow THEN i
  ELSE NumFlowPlots(i + 1, limit, sorted, d, i)

\* a | b on dicts
DictUnion(a, b) ==
  [k \in DOMAIN a \cup DOMAIN b |-> IF k \in DOMAIN b THEN b[k] ELSE a[k]]

\* {k: a.get(k, 0) + b.get(k, 0) for k in set(a) | set(b)}
DictSum(a, b) ==
  [k \in DOMAIN a \cup DOMAIN b |->
     (IF k \in DOMAIN a THEN a[k] ELSE 0) + (IF k \in DOMAIN b THEN b[k] ELSE 0)]

Aggregated(agg, fd) ==
  FlowData(DictUnion(agg.dropped, fd.dropped), DictUnion(agg.latency, fd.latency),
           DictUnion(agg.pkt_size, fd.pkt_size), agg.total + fd.total,
           agg.unmatched + fd.unmatched, DictSum(agg.dscp, fd.dscp),
           DictSum(agg.ecn, fd.ecn), DictUnion(agg.dscp3, fd.dscp3),
           DictUnion(agg.CE_size, fd.CE_size))

RECURSIVE AggregateFrom(_, _, _, _)
AggregateFrom(k, sorted, d, agg) ==
  IF k > Len(sorted) THEN agg
  ELSE AggregateFrom(k + 1, sorted, d, Aggregated(agg, d[sorted[k]]))

\* lines 50-69 and 76-95 on one direction's data
Capped(d, order, maxPlots) ==
  LET sorted == SortedByCount(order, d)
      limit == IF maxPlots < Len(sorted) THEN maxPlots ELSE Len(sorted)
      num_flow_plots == NumFlowPlots(0, limit, sorted, d, 0)
      merged == {sorted[k] : k \in (num_flow_plots + 1)..Len(sorted)}
      aggregated_data ==
        AggregateFrom(num_flow_plots + 1, sorted, d,
                      FlowData(EmptyMap, EmptyMap, EmptyMap, 0, 0, EmptyMap,
                               EmptyMap, EmptyMap, EmptyMap))
  IN IF Len(sorted) > num_flow_plots + 1
     THEN Put([f \in DOMAIN d \ merged |-> d[f]], OtherFlows, aggregated_data)
     ELSE d

CapUpstream(maxPlots) ==
  /\ corr_pc = "done"
  /\ up_data' = Capped(up_data, KeyOrder(up_data, parsed_data), maxPlots)
  /\ corr_pc' = "up_capped"
  /\ UNCHANGED <<parsed_data, flow_idx, pkt_idx, flowLocals, down_data, matched>>

CapDownstream(maxPlots) ==
  /\ corr_pc = "up_capped"
  /\ down_data' = Capped(down_data, KeyOrder(down_data, parsed_data), maxPlots)
  /\ corr_pc' = "capped"
  /\ UNCHANGED <<parsed_data, flow_idx, pkt_idx, flowLocals, up_data, matched>>

(***************************************************************************)
(* SpecCap: parse_data, then the capping of multiflow.py, on at most       *)
(* MaxCapFlows flows; each flow is downstream or upstream and has one or   *)
(* two packets, all matched.  CapPlots stands for max_flow_plots.          *)
(***************************************************************************)
FlowNames == <<"f1", "f2", "f3", "f4", "f5", "f6">>

CapCounts == 1..2

\* a flow of c packets crossing in one tick: sender, receiver, sender, ...
CapFlowPkts(down, c) ==
  [j \in 1..(2 * c) |->
     Pkt("num", (j - 1) * Tick,
         IF (j % 2 = 1) = down THEN NsiName ELSE CmciName,
         0, 0, 0, 1, <<(j + 1) \div 2>>)]

CapFlowLists ==
  UNION {[1..n -> {CapFlowPkts(down, c) : down \in BOOLEAN, c \in CapCounts}]
           : n \in 0..MaxCapFlows}

CapProcess == ProcessPacket /\ UNCHANGED <<sortVars, clsVars, stdin, statVars>>

CapFinish == FinishFlow /\ UNCHANGED <<sortVars, clsVars, stdin, statVars>>

CapReturn == NextFlow /\ UNCHANGED <<sortVars, clsVars, stdin, statVars>>

CapUp == CapUpstream(CapPlots) /\ UNCHANGED <<sortVars, clsVars, stdin, statVars>>

CapDown == CapDownstream(CapPlots) /\ UNCHANGED <<sortVars, clsVars, stdin, statVars>>

CapInit ==
  /\ SortStart /\ ClsStart /\ StatIdle /\ stdin = <<>>
  /\ parsed_data \in {[k \in 1..Len(l) |-> [id |-> FlowNames[k], pkts |-> l[k]]]
                        : l \in CapFlowLists}
  /\ CorrStart

CapNext == CapProcess \/ CapFinish \/ CapReturn \/ CapUp \/ CapDown

SpecCap == CapInit /\ [][CapNext]_vars

(***************************************************************************)
(* SpecThroughput: get_throughput on every non-empty map of at most        *)
(* MaxThrTime + 1 packets with timestamps 0..MaxThrTime.  No caller passes *)
(* an empty map: a flow that is output has a match, and CE_size is tested  *)
(* at line 725.                                                            *)
(***************************************************************************)
ThrSizes == {1, 2}

ThrIntervals == {1, 2, 4}

ThrMaps == UNION {[S -> ThrSizes] : S \in SUBSET (0..MaxThrTime) \ {{}}}

ThrCall == CallThroughput /\ UNCHANGED <<sortVars, clsVars, corrVars, stdin>>

\* the caller uses the result and is done
ThrDone ==
  /\ thr_pc = "returned"
  /\ thr_pc' = "idle"
  /\ UNCHANGED <<pkt_size_arg, interval_arg, thr_ret, calcVars,
                 sortVars, clsVars, corrVars, stdin>>

ThrInit ==
  /\ SortStart /\ ClsStart /\ parsed_data = <<>> /\ CorrIdle /\ stdin = <<>>
  /\ pkt_size_arg \in ThrMaps
  /\ interval_arg \in ThrIntervals
  /\ thr_ret = [bps_array |-> <<>>, end_t |-> 0, start_t |-> 0]
  /\ thr_pc = "call"
  /\ StatsIdle

ThrNext == ThrCall \/ ThrDone

SpecThroughput == ThrInit /\ [][ThrNext]_vars

(***************************************************************************)
(* SpecFingerprint: parse_flows_file on at most MaxFpLines TCP and UDP     *)
(* lines of one connection, captured one time unit apart, whose payloads   *)
(* have 40 or 122 characters and differ from a base payload in at most one *)
(* character.                                                              *)
(***************************************************************************)
\* L characters: ports 0x0050 -> 0x1f90, then zeros, with character p
\* (counted from 0) replaced; p = L replaces nothing
FpPayload(L, p) ==
  [j \in 1..L |-> IF j = p + 1 THEN 7
                  ELSE IF j <= 8 THEN <<0, 0, 5, 0, 1, 15, 9, 0>>[j] ELSE 0]

FpPayloads ==
  {FpPayload(40, p) : p \in {11, 12, 15, 16, 31, 32, 35, 36, 40}}
    \cup {FpPayload(122, p) : p \in {33, 119, 120, 121, 122}}

FpLines(ts) ==
  {Line(10, "num", ts, NsiName, "S", "C", proto, 0, 1, 0, 1, data, <<>>) :
     proto \in {6, 17}, data \in FpPayloads}

FpRead ==
  /\ Len(cls_in) < MaxFpLines
  /\ \E x \in FpLines(Len(cls_in)) : ClassifyLine(x)
  /\ UNCHANGED <<sortVars, flow_idx, pkt_idx, flowLocals, up_data, down_data,
                 corr_pc, stdin, statVars>>

FpEOF ==
  /\ ClassifyEOF
  /\ UNCHANGED <<sortVars, flow_idx, pkt_idx, flowLocals, up_data, down_data, stdin, statVars>>

FpInit == SortStart /\ ClsStart /\ StatIdle /\ parsed_data = <<>> /\ CorrIdle /\ stdin = <<>>

FpNext == FpRead \/ FpEOF

SpecFingerprint == FpInit /\ [][FpNext]_vars

(***************************************************************************)
(* SpecNat: parse_flows_file on at most MaxNatLines lines in timestamp     *)
(* order, as the Reorderer delivers them: line 1 at 9.50 s, line 2 at      *)
(* 10.20 s, the next ones 0.10 s apart.  A server S, port 80 or 81, sends  *)
(* through a NAT gateway: the NSI side shows the gateway's address W, the  *)
(* CMCI side the client's address C.                                       *)
(***************************************************************************)
NatTs(k) == IF k = 1 THEN 950 ELSE 1000 + 10 * k

\* source port 0x0050 or 0x0051, destination port 0x1f90 or 0x1f91
NatPayload(sport, dport) == <<0, 0, 5, sport, 1, 15, 9, dport, 10>>

NatLines(ts) ==
  {Line(10, "num", ts, ifn, "S", dst, 6, 0, 1, 0, 1, NatPayload(sport, dport), <<>>) :
     ifn \in {NsiName, CmciName}, dst \in {"W", "C"}, sport \in {0, 1}, dport \in {0, 1}}
  \cup
  {Line(10, "num", ts, ifn, "S", IF ifn = NsiName THEN "W" ELSE "C", 17, 0, 1, 0, 1,
        NatPayload(0, 0), <<>>) : ifn \in {NsiName, CmciName}}

NatRead ==
  /\ Len(cls_in) < MaxNatLines
  /\ \E x \in NatLines(NatTs(Len(cls_in) + 1)) : ClassifyLine(x)
  /\ UNCHANGED <<sortVars, flow_idx, pkt_idx, flowLocals, up_data, down_data,
                 corr_pc, stdin, statVars>>

NatEOF ==
  /\ ClassifyEOF
  /\ UNCHANGED <<sortVars, flow_idx, pkt_idx, flowLocals, up_data, down_data, stdin, statVars>>

NatInit == SortStart /\ ClsStart /\ StatIdle /\ parsed_data = <<>> /\ CorrIdle /\ stdin = <<>>

NatNext == NatRead \/ NatEOF

SpecNat == NatInit /\ [][NatNext]_vars

(***************************************************************************)
(* SpecStats: calculate_stats on every non-empty size map with timestamps  *)
(* in the first MaxStatTime + 1 buckets of 100 ms and in the first two     *)
(* buckets of the next second, for a warm-up of 0 s (multiflow.py:28) or   *)
(* 1 s.  Sizes are multiples of 5 so that 1-second bucket values are exact.*)
(***************************************************************************)
StatTimes == (0..MaxStatTime) \cup {Interval1s, Interval1s + 1}

StatSizes == {5, 50}

StatMaps == UNION {[S -> StatSizes] : S \in SUBSET StatTimes \ {{}}}

StatWarmups == {0, 1}

StatsCall == CallStats /\ UNCHANGED <<sortVars, clsVars, corrVars, stdin>>

\* the caller uses the result and is done
StatsDone ==
  /\ stats_pc = "returned"
  /\ stats_pc' = "idle"
  /\ UNCHANGED <<pkt_size_arg, interval_arg, thr_ret, thr_pc, t_steadystate,
                 stats_ret, sortVars, clsVars, corrVars, stdin>>

StatsInit ==
  /\ SortStart /\ ClsStart /\ parsed_data = <<>> /\ CorrIdle /\ stdin = <<>>
  /\ pkt_size_arg \in StatMaps
  /\ interval_arg = 1
  /\ thr_ret = [bps_array |-> <<>>, end_t |-> 0, start_t |-> 0]
  /\ thr_pc = "idle"
  /\ t_steadystate \in StatWarmups
  /\ stats_ret = NoStats
  /\ stats_pc = "call"

StatsNext == StatsCall \/ StatsDone

SpecStats == StatsInit /\ [][StatsNext]_vars

(***************************************************************************)
(* SpecCross: parse_data on flows whose packets cross the device with      *)
(* latencies of their own, so that they can leave in another order than    *)
(* they arrived.  CrossLen packets with distinct fingerprints are sent one *)
(* tick apart, downstream or upstream; one packet is missing from one      *)
(* side's capture; the list is in timestamp order.                         *)
(***************************************************************************)
CrossDelays == {d * Tick : d \in 1..MaxDelay}

\* stable insertion by timestamp
RECURSIVE ByTime(_)
ByTime(l) ==
  IF l = <<>> THEN <<>>
  ELSE LET rest == ByTime(SubSeq(l, 1, Len(l) - 1))
           x == l[Len(l)]
           k == Cardinality({i \in 1..Len(rest) : rest[i].ts <= x.ts})
       IN SubSeq(rest, 1, k) \o <<x>> \o SubSeq(rest, k + 1, Len(rest))

CrossFlows ==
  UNION { UNION {
    LET snd == [k \in 1..CrossLen |->
                  Pkt("num", (k - 1) * Tick, IF down THEN NsiName ELSE CmciName,
                      0, 0, 0, 1, <<k>>)]
        rcv == [k \in 1..CrossLen |->
                  Pkt("num", (k - 1) * Tick + delay[k],
                      IF down THEN CmciName ELSE NsiName, 0, 0, 0, 1, <<k>>)]
    IN {ByTime(Without(snd, i) \o rcv), ByTime(snd \o Without(rcv, i))}
    : i \in 1..CrossLen } : delay \in [1..CrossLen -> CrossDelays], down \in BOOLEAN }

CrossProcess == ProcessPacket /\ UNCHANGED <<sortVars, clsVars, stdin, statVars>>

CrossFinish == FinishFlow /\ UNCHANGED <<sortVars, clsVars, stdin, statVars>>

CrossReturn == NextFlow /\ UNCHANGED <<sortVars, clsVars, stdin, statVars>>

CrossInit ==
  /\ SortStart /\ ClsStart /\ StatIdle /\ stdin = <<>>
  /\ parsed_data \in {<<[id |-> TheFlow, pkts |-> l]>> : l \in CrossFlows}
  /\ CorrStart

CrossNext == CrossProcess \/ CrossFinish \/ CrossReturn

SpecCross == CrossInit /\ [][CrossNext]_vars

(***************************************************************************)
(* Properties of the Reorderer (SpecSort).                                 *)
(***************************************************************************)
\* the input consists of records: 10 fields, a finite numeric timestamp
RecordsOnly(in) == \A i \in 1..Len(in) : in[i].n = 10 /\ in[i].tk = "num"

\* each interface's own sub-sequence is non-decreasing in timestamp
LocallySorted(in) ==
  \A i, j \in 1..Len(in) :
    (i < j /\ in[i].ifn = in[j].ifn) => in[i].ts <= in[j].ts

IsSorted(s) == \A i, j \in 1..Len(s) : i < j => s[i].ts <= s[j].ts

Count(s, v) == Cardinality({i \in 1..Len(s) : s[i] = v})

IsPermutation(s, t) ==
  /\ Len(s) = Len(t)
  /\ \A i \in 1..Len(t) : Count(s, t[i]) = Count(t, t[i])

\* every interface's first record is among the first warm-up lines
SeenInWarmup(in) ==
  \A i \in 1..Len(in) :
    \E j \in 1..SortWarmup : j <= i /\ in[j].ifn = in[i].ifn

\* C1 as stated: for every input of records whose per-interface
\* sub-sequences are non-decreasing in timestamp, the complete output is a
\* timestamp-sorted permutation of the input.
C1_SortedPermutation ==
  (sort_pc = "done" /\ RecordsOnly(sort_in) /\ LocallySorted(sort_in))
    => (IsSorted(stdout) /\ IsPermutation(stdout, sort_in))

\* C1 amended: the same, for the inputs in which every interface's first
\* record is among the first warm-up lines.
C1_SortedPermutationAfterWarmup ==
  (sort_pc = "done" /\ RecordsOnly(sort_in) /\ LocallySorted(sort_in)
     /\ SeenInWarmup(sort_in))
    => (IsSorted(stdout) /\ IsPermutation(stdout, sort_in))

\* two interfaces, more lines than the warm-up, arriving out of order
C1_Witness ==
  /\ sort_pc = "done"
  /\ RecordsOnly(sort_in) /\ LocallySorted(sort_in) /\ SeenInWarmup(sort_in)
  /\ Len(sort_in) > SortWarmup + 1
  /\ ~IsSorted(sort_in)
  /\ \E i, j \in 1..Len(sort_in) : sort_in[i].ifn # sort_in[j].ifn

AllBuffered == UNION {{if_buffer[i][k] : k \in 1..Len(if_buffer[i])} : i \in DOMAIN if_buffer}

AllPrinted == {stdout[k] : k \in 1..Len(stdout)}

\* the lines the read loop buffers: two tokens or more
BufferedLines(in) == {i \in 1..Len(in) : in[i].n >= 2}

\* every buffered line has a timestamp, every interface's first line is
\* among the first warm-up lines of the input, and each interface's lines
\* are non-decreasing in timestamp
OrderedAndSeenInWarmup(in) ==
  /\ \A i \in BufferedLines(in) : in[i].tk = "num"
  /\ \A i \in BufferedLines(in) :
       \E j \in BufferedLines(in) : j <= SortWarmup /\ j <= i /\ in[j].ifn = in[i].ifn
  /\ \A i, j \in BufferedLines(in) :
       (i < j /\ in[i].ifn = in[j].ifn) => in[i].ts <= in[j].ts

\* C14: when every interface's first record is within the warm-up lines and
\* each interface's records are non-decreasing in timestamp, what has been
\* emitted is non-decreasing in timestamp at every moment; an out-of-order
\* emission needs an interface first seen after the warm-up.
C14_OrderedUnlessLateInterface ==
  OrderedAndSeenInWarmup(sort_in) => IsSorted(stdout)

\* while still reading, two interfaces' records that arrived out of order
\* have been emitted
C14_Witness ==
  /\ sort_pc = "read"
  /\ OrderedAndSeenInWarmup(sort_in)
  /\ Len(stdout) >= 2
  /\ stdout[1].ifn # stdout[2].ifn
  /\ ~IsSorted(sort_in)

\* the records E leave the FIFOs buf one at a time, each at a moment when
\* no FIFO is empty and each a head with the smallest timestamp among the
\* heads, and final is what is left
RECURSIVE DrainedInOrder(_, _, _)
DrainedInOrder(buf, E, final) ==
  IF E = <<>> THEN buf = final
  ELSE /\ \A j \in DOMAIN buf : buf[j] # <<>>
       /\ Head(E).tk = "num"
       /\ \A j \in DOMAIN buf : buf[j][1].tk = "num" => Head(E).ts <= buf[j][1].ts
       /\ \E i \in DOMAIN buf :
            /\ buf[i][1] = Head(E)
            /\ DrainedInOrder([buf EXCEPT ![i] = Tail(@)], Tail(E), final)

\* the FIFOs once the line just read is buffered
WithLine(buf, x) ==
  IF x.n < 2 THEN buf
  ELSE IF x.ifn \in DOMAIN buf THEN [buf EXCEPT ![x.ifn] = Append(@, x)]
  ELSE buf @@ (x.ifn :> <<x>>)

\* C15: while reading, nothing is emitted up to the warm-up line count;
\* after it a record is emitted only when every known interface's FIFO is
\* non-empty, it is a head with the smallest timestamp of all heads, and
\* the draining after a line stops once some known FIFO is empty.
C15_DrainDiscipline ==
  [][(sort_pc = "read" /\ linecount' = linecount + 1) =>
       IF linecount' <= SortWarmup
       THEN stdout' = stdout
       ELSE /\ Len(stdout') >= Len(stdout)
            /\ SubSeq(stdout', 1, Len(stdout)) = stdout
            /\ DrainedInOrder(WithLine(if_buffer, sort_in'[Len(sort_in')]),
                              SubSeq(stdout', Len(stdout) + 1, Len(stdout')),
                              if_buffer')
            /\ sort_pc' = "read" => \E i \in DOMAIN if_buffer' : if_buffer'[i] = <<>>]_vars

\* after the warm-up a line has been read, records of two interfaces have
\* been emitted, and the draining has stopped with records still buffered
C15_Witness ==
  /\ sort_pc = "read"
  /\ linecount > SortWarmup
  /\ Len(stdout) >= 2
  /\ \E i \in DOMAIN if_buffer : if_buffer[i] = <<>>
  /\ \E i \in DOMAIN if_buffer : if_buffer[i] # <<>>
  /\ \E k \in 1..Len(stdout) : stdout[k].ifn # stdout[1].ifn

\* the input lines the read loop buffered, in input order
BufferedInput(in) == SelectSeq(in, LAMBDA x : x.n >= 2)

\* C16: at end of input everything still buffered is flushed, whether or not
\* some FIFO is empty: when the Reorderer terminates all FIFOs are empty and
\* every buffered input line has been emitted exactly once, for inputs
\* shorter than the warm-up too and for any input order; on an input of
\* records it does terminate.
C16_FlushAll ==
  /\ RecordsOnly(sort_in) => sort_pc \in {"read", "done"}
  /\ sort_pc = "done" =>
       /\ \A i \in DOMAIN if_buffer : if_buffer[i] = <<>>
       /\ IsPermutation(stdout, BufferedInput(sort_in))

\* the input ended within the warm-up and its out-of-order records of two
\* interfaces were all emitted by the flush
C16_Witness ==
  /\ sort_pc = "done"
  /\ linecount <= SortWarmup
  /\ RecordsOnly(sort_in)
  /\ ~IsSorted(sort_in)
  /\ Cardinality(DOMAIN if_buffer) = 2
  /\ Len(stdout) = linecount

\* where the line v, which occurs once, stands in s
PlaceOf(s, v) == CHOOSE k \in 1..Len(s) : s[k] = v

\* C17: two records of different interfaces with equal timestamps are
\* emitted in the relative order in which they appeared in the input.
C17_StableTieBreak ==
  (sort_pc = "done" /\ RecordsOnly(sort_in)) =>
    \A i, j \in 1..Len(sort_in) :
      (/\ i < j
       /\ sort_in[i].ts = sort_in[j].ts
       /\ sort_in[i].ifn # sort_in[j].ifn
       /\ Count(sort_in, sort_in[i]) = 1
       /\ Count(sort_in, sort_in[j]) = 1)
        => PlaceOf(stdout, sort_in[i]) < PlaceOf(stdout, sort_in[j])

\* C8: a malformed line is skipped and never aborts the run: the Reorderer
\* ends with no uncaught exception on every input.
C8_NeverAborts == sort_pc \in {"read", "done"}

\* C9: a line with fewer than 10 fields is never buffered and never appears
\* in the Reorderer's output.
C9_ShortLinesDropped ==
  \A x \in AllBuffered \cup AllPrinted : x.n >= 10

(***************************************************************************)
(* Properties of the Correlator (SpecCorrelate).                           *)
(***************************************************************************)
Emitted == {up_data[f] : f \in DOMAIN up_data} \cup {down_data[f] : f \in DOMAIN down_data}

\* C3: for every flow in the upstream or downstream output, the total
\* (element 3) is the number of matched latencies plus the unmatched count
\* (element 4) plus the number of dropped entries (element 0).
C3_TotalIsSum ==
  \A fd \in Emitted :
    fd.total = Cardinality(DOMAIN fd.latency) + fd.unmatched
               + Cardinality(DOMAIN fd.dropped)

\* the packets of the flow being processed
FlowPkts == parsed_data[flow_idx].pkts

Copies(x, pid, ifn) == {i \in 1..Len(x) : x[i].pid = pid /\ x[i].ifn = ifn}

\* every packet is seen once on each side, the CMCI copy delta later
RoundTrip(x, delta) ==
  /\ Len(x) > 0
  /\ \A i \in 1..Len(x) :
       /\ x[i].tk = "num" /\ x[i].dscp # -1 /\ x[i].ecn # -1
       /\ Cardinality(Copies(x, x[i].pid, NsiName)) = 1
       /\ Cardinality(Copies(x, x[i].pid, CmciName)) = 1
  /\ \A i, j \in 1..Len(x) :
       (x[i].pid = x[j].pid /\ x[i].ifn = NsiName /\ x[j].ifn = CmciName)
         => x[j].ts = x[i].ts + delta

Deltas == {Tick, 2 * Tick}

\* C5: a flow of distinct fingerprints whose CMCI copies carry the NSI
\* timestamp plus a fixed delta > 0 is matched packet for packet with
\* latency delta, has no unmatched and no dropped packet, and is placed in
\* the downstream output only.
C5_RoundTrip ==
  \A delta \in Deltas :
    (corr_pc = "decided" /\ RoundTrip(FlowPkts, delta))
      => /\ TheFlow \in DOMAIN down_data
         /\ TheFlow \notin DOMAIN up_data
         /\ LET fd == down_data[TheFlow]
            IN /\ 2 * Cardinality(DOMAIN fd.latency) = Len(FlowPkts)
               /\ \A k \in DOMAIN fd.latency : fd.latency[k] = delta
               /\ fd.unmatched = 0
               /\ DOMAIN fd.dropped = {}

\* two packets with the same NSI timestamp, round trip of one tick
C5_Witness ==
  /\ corr_pc = "decided"
  /\ RoundTrip(FlowPkts, Tick)
  /\ Len(FlowPkts) = 4
  /\ \A i \in 1..4 : FlowPkts[i].ifn = NsiName => FlowPkts[i].ts = 0
  /\ TheFlow \in DOMAIN down_data

RECURSIVE SignedLatencySum(_)
SignedLatencySum(m) ==
  IF m = <<>> THEN 0 ELSE (Head(m).cmci - Head(m).nsi) + SignedLatencySum(Tail(m))

\* C6: a flow with at least one match is in exactly one output, downstream
\* when the mean NSI-anchored signed latency (CMCI minus NSI timestamp) is
\* greater than zero and upstream otherwise; a flow with no match is in
\* neither.
C6_DirectionOnce ==
  corr_pc = "decided" =>
    LET flow == parsed_data[flow_idx].id
    IN IF matched = <<>>
       THEN flow \notin DOMAIN down_data /\ flow \notin DOMAIN up_data
       ELSE IF SignedLatencySum(matched) > 0
       THEN flow \in DOMAIN down_data /\ flow \notin DOMAIN up_data
       ELSE flow \in DOMAIN up_data /\ flow \notin DOMAIN down_data

\* matches in both directions whose latencies cancel: upstream
C6_Witness ==
  /\ corr_pc = "decided"
  /\ Len(matched) >= 2
  /\ SignedLatencySum(matched) = 0
  /\ \E i \in 1..Len(matched) : matched[i].cmci > matched[i].nsi
  /\ TheFlow \in DOMAIN up_data

\* C10: the packet-count percentages of every flow the correlator emits
\* are computed without a division by zero.
C10_NoDivisionByZero ==
  \A fd \in Emitted : PacketCountTable(fd).err = "none"

(***************************************************************************)
(* Properties of the Classifier (SpecClassify).                            *)
(***************************************************************************)
\* how often packet p is held, over all flows
RECURSIVE HeldCount(_, _)
HeldCount(pd, p) ==
  IF pd = <<>> THEN 0 ELSE Count(Head(pd).pkts, p) + HeldCount(Tail(pd), p)

RECURSIVE HeldTotal(_)
HeldTotal(pd) == IF pd = <<>> THEN 0 ELSE Len(Head(pd).pkts) + HeldTotal(Tail(pd))

AcceptedLines(in) == {i \in 1..Len(in) : Accepted(in[i])}

\* C7: every record with at least 10 fields and parsable ports (or ICMP) is
\* held in exactly one flow's packet list, once; the flows hold nothing
\* else, so a skipped record creates no flow and changes no flow.
C7_EveryRecordOnce ==
  /\ \A i \in AcceptedLines(cls_in) :
       HeldCount(parsed_data, ToPkt(cls_in[i]))
         = Cardinality({j \in AcceptedLines(cls_in) : ToPkt(cls_in[j]) = ToPkt(cls_in[i])})
  /\ HeldTotal(parsed_data) = Cardinality(AcceptedLines(cls_in))
  /\ \A k \in 1..Len(parsed_data) :
       /\ parsed_data[k].pkts # <<>>
       /\ FlowPos(parsed_data, parsed_data[k].id) = {k}

\* two NAT halves joined into one flow, and a skipped line
C7_Witness ==
  /\ cls_pc = "done"
  /\ Len(parsed_data) = 1
  /\ \E i, j \in AcceptedLines(cls_in) : FlowId(cls_in[i]) # FlowId(cls_in[j])
  /\ \E i \in 1..Len(cls_in) : ~Accepted(cls_in[i])

(***************************************************************************)
(* Properties of the pipeline (SpecPipeline).                              *)
(***************************************************************************)
E2EFlow == FlowId(E2ENsiLine(0))

\* C2: the capture yields exactly one downstream flow with 4 matches of
\* latency 0.05 s each, 1 dropped packet (f2), 0 unmatched packets and
\* total 5, and no upstream flow.
C2_EndToEnd ==
  corr_pc = "done" =>
    /\ DOMAIN up_data = {}
    /\ DOMAIN down_data = {E2EFlow}
    /\ LET fd == down_data[E2EFlow]
       IN /\ Cardinality(DOMAIN fd.latency) = 4
          /\ \A k \in DOMAIN fd.latency : fd.latency[k] = Tick
          /\ DOMAIN fd.dropped = {PacketId(E2ENsiLine(2))}
          /\ fd.unmatched = 0
          /\ fd.total = 5

\* the run is complete and the capture file was not in timestamp order
C2_Witness ==
  /\ corr_pc = "done"
  /\ sort_pc = "done"
  /\ cls_pc = "done"
  /\ ~IsSorted(sort_in)
  /\ E2EFlow \in DOMAIN down_data

(***************************************************************************)
(* Properties of the Correlator with injected loss (SpecLoss).             *)
(***************************************************************************)
PidsOf(x) == {x[i].pid : i \in 1..Len(x)}

\* the packet left without its copy
LonePkt(x) ==
  x[CHOOSE i \in 1..Len(x) : \A j \in 1..Len(x) : x[j].pid = x[i].pid => j = i]

\* the flow's direction, read off a packet that has both copies
IsDownstream(x) ==
  \E i, j \in 1..Len(x) :
    /\ x[i].pid = x[j].pid /\ x[i].ifn = NsiName /\ x[j].ifn = CmciName
    /\ x[i].ts < x[j].ts

SendingSide(x) == IF IsDownstream(x) THEN NsiName ELSE CmciName

\* the other packets captured on the lone packet's side
SameSide(x) == {i \in 1..Len(x) : x[i].ifn = LonePkt(x).ifn /\ x[i] # LonePkt(x)}

Outputs(x) == IF IsDownstream(x) THEN down_data ELSE up_data

Interior(x) ==
  /\ \E i \in SameSide(x) : x[i].ts <= LonePkt(x).ts
  /\ \E i \in SameSide(x) : x[i].ts >= LonePkt(x).ts

TopKept(d, d2) ==
  IF Cardinality(DOMAIN d) > CapPlots
  THEN \E top \in SUBSET DOMAIN d :
         /\ Cardinality(top) = CapPlots
         /\ \A f \in top, g \in DOMAIN d \ top : d[f].total >= d[g].total
         /\ DOMAIN d2 = top \cup {OtherFlows}
         /\ \A f \in top : d2[f] = d[f]
  ELSE d2 = d

\* C11: when a direction has more than max_flow_plots flows, the
\* max_flow_plots flows with the highest packet counts stay individual
\* entries and all others are merged into "other flows"; otherwise nothing
\* is merged.
C11_TopKept ==
  [][/\ (corr_pc = "done" /\ corr_pc' = "up_capped") => TopKept(up_data, up_data')
     /\ (corr_pc = "up_capped" /\ corr_pc' = "capped") => TopKept(down_data, down_data')]_vars

(***************************************************************************)
(* Properties of get_throughput (SpecThroughput).                          *)
(***************************************************************************)
\* floor(t / I) for t >= 0
FloorDiv(t, I) == CHOOSE b \in 0..t : b * I <= t /\ t < (b + 1) * I

Occupied(m, I) == {FloorDiv(t, I) : t \in DOMAIN m}

\* C12: the array has one element per bucket 0..(largest occupied bucket),
\* element b is 8/I times the bytes of the packets with floor(t/I) = b (0
\* for a bucket with no packet), end and start are the largest and the
\* smallest occupied bucket, and a single packet gives exactly one nonzero
\* bucket, at floor(t/I), of value 8*S/I.
C12_Throughput ==
  thr_pc = "returned" =>
    LET m == pkt_size_arg
        I == interval_arg
        occ == Occupied(m, I)
        r == thr_ret
    IN /\ \A b \in occ : b <= r.end_t /\ b >= r.start_t
       /\ r.end_t \in occ /\ r.start_t \in occ
       /\ Len(r.bps_array) = r.end_t + 1
       /\ \A b \in 0..r.end_t :
            I * r.bps_array[b + 1] =
              8 * SumOver(m, {t \in DOMAIN m : FloorDiv(t, I) = b})
       /\ \A t \in DOMAIN m :
            DOMAIN m = {t} =>
              \A b \in 0..r.end_t :
                r.bps_array[b + 1] # 0 <=> b = FloorDiv(t, I)

\* three packets in two buckets with an empty bucket between them
C12_Witness ==
  /\ thr_pc = "returned"
  /\ interval_arg = 2
  /\ Cardinality(DOMAIN pkt_size_arg) = 3
  /\ thr_ret.start_t = 0
  /\ thr_ret.end_t = 2
  /\ thr_ret.bps_array[1] > 8
  /\ thr_ret.bps_array[2] = 0

(***************************************************************************)
(* Properties of the fingerprint (SpecFingerprint).                        *)
(***************************************************************************)
\* the packet parse_flows_file holds for input line i, with its flow
Held(i) ==
  CHOOSE e \in UNION {{[flow |-> parsed_data[k].id, pkt |-> parsed_data[k].pkts[n]] :
                          n \in 1..Len(parsed_data[k].pkts)} : k \in 1..Len(parsed_data)} :
    e.pkt.ts = cls_in[i].ts

\* the first 120 characters
Prefix120(data) == SubSeq(data, 1, IF Len(data) < 120 THEN Len(data) ELSE 120)

\* equal except at the offsets lo .. hi - 1
EqualExcept(a, b, lo, hi) ==
  /\ Len(a) = Len(b)
  /\ \A k \in 1..Len(a) : (k - 1 < lo \/ k - 1 >= hi) => a[k] = b[k]

Twins(x, y, proto, lo, hi) ==
  /\ x.proto = proto /\ y.proto = proto
  /\ x.src = y.src /\ x.dst = y.dst
  /\ EqualExcept(Prefix120(x.data), Prefix120(y.data), lo, hi)

\* C13: two TCP records whose 120-character payload prefixes differ only at
\* offsets [32,36) get the same fingerprint and flow key, two UDP records
\* that differ only at [12,16) get the same fingerprint, and characters
\* after the first 120 do not affect the fingerprint.
C13_ChecksumInvariant ==
  \A i, j \in 1..Len(cls_in) :
    /\ Twins(cls_in[i], cls_in[j], 6, 32, 36) =>
         /\ Held(i).pkt.pid = Held(j).pkt.pid
         /\ Held(i).flow = Held(j).flow
    /\ Twins(cls_in[i], cls_in[j], 17, 12, 16) =>
         Held(i).pkt.pid = Held(j).pkt.pid
    /\ (cls_in[i].proto = cls_in[j].proto
          /\ Prefix120(cls_in[i].data) = Prefix120(cls_in[j].data)) =>
         Held(i).pkt.pid = Held(j).pkt.pid

\* two TCP lines that differ at offset 35 of the payload, and two lines of
\* 122 characters that differ at offset 120, have been read
C13_Witness ==
  /\ Len(cls_in) = 2
  /\ cls_in[1].proto = cls_in[2].proto
  /\ \/ /\ cls_in[1].proto = 6
        /\ cls_in[1].data = FpPayload(40, 35)
        /\ cls_in[2].data = FpPayload(40, 32)
     \/ /\ cls_in[1].data = FpPayload(122, 120)
        /\ cls_in[2].data = FpPayload(122, 122)
  /\ Len(parsed_data) = 1
  /\ parsed_data[1].pkts[1].pid = parsed_data[1].pkts[2].pid

(***************************************************************************)
(* Properties of the NAT join (SpecNat).  pd is the flow list before the   *)
(* join and pd2 after it; every packet has its own timestamp.              *)
(***************************************************************************)
PktsOf(f) == {f.pkts[n] : n \in 1..Len(f.pkts)}

\* the flows of pd whose packets the flow g holds
HalvesOf(pd, g) == {j \in 1..Len(pd) : PktsOf(pd[j]) \subseteq PktsOf(g)}

\* the flow g results from a merge
IsMerged(pd, g) == \A j \in 1..Len(pd) : pd[j] # g

NumericallySorted(pkts) ==
  \A m, n \in 1..Len(pkts) : m < n => pkts[m].ts <= pkts[n].ts

\* C18: after a NAT-half merge the surviving flow's packet list is in
\* non-decreasing numeric timestamp order, whatever the number of digits of
\* the timestamps' integer parts.
C18_MergedSortedNumerically ==
  [][(cls_pc = "read" /\ cls_pc' = "done") =>
       \A k \in 1..Len(parsed_data') :
         IsMerged(parsed_data, parsed_data'[k]) =>
           NumericallySorted(parsed_data'[k].pkts)]_vars

SingleIf(f) == Cardinality({f.pkts[n].ifn : n \in 1..Len(f.pkts)}) = 1

IfOf(f) == f.pkts[1].ifn

\* the flow pd[j] was consumed by a merge
Consumed(pd, pd2, j) == \A k \in 1..Len(pd2) : pd2[k] # pd[j]

\* two single-interface flows seen on different interfaces
Halves(f, g) == SingleIf(f) /\ SingleIf(g) /\ IfOf(f) # IfOf(g)

SameAddress(f, g) ==
  /\ f.id.proto = g.id.proto
  /\ (f.id.ipsrc = g.id.ipsrc \/ f.id.ipdst = g.id.ipdst)

\* the same source address and port, or the same destination address and port
SameEndpoint(f, g) ==
  /\ f.id.proto = g.id.proto
  /\ \/ (f.id.ipsrc = g.id.ipsrc /\ f.id.src = g.id.src)
     \/ (f.id.ipdst = g.id.ipdst /\ f.id.dst = g.id.dst)

\* C19 as stated: two single-interface flows on different interfaces with
\* the same protocol and the same source address or the same destination
\* address are merged, whatever their ports: they do not both stay as they
\* were.
C19_MergedOnAddress ==
  [][(cls_pc = "read" /\ cls_pc' = "done") =>
       \A i, j \in 1..Len(parsed_data) :
         (Halves(parsed_data[i], parsed_data[j])
            /\ SameAddress(parsed_data[i], parsed_data[j]))
           => (Consumed(parsed_data, parsed_data', i)
                 \/ Consumed(parsed_data, parsed_data', j))]_vars

\* C19 amended: two single-interface flows on different interfaces with the
\* same protocol and the same source address and port, or the same
\* destination address and port, do not both stay as they were; every
\* merge joins two such flows and nothing else is merged; the address and
\* port of the other end are not compared.
C19_MergedOnEndpoint ==
  [][(cls_pc = "read" /\ cls_pc' = "done") =>
       /\ \A i, j \in 1..Len(parsed_data) :
            (Halves(parsed_data[i], parsed_data[j])
               /\ SameEndpoint(parsed_data[i], parsed_data[j]))
              => (Consumed(parsed_data, parsed_data', i)
                    \/ Consumed(parsed_data, parsed_data', j))
       /\ \A k \in 1..Len(parsed_data') :
            IsMerged(parsed_data, parsed_data'[k]) =>
              \E i, j \in HalvesOf(parsed_data, parsed_data'[k]) :
                /\ Halves(parsed_data[i], parsed_data[j])
                /\ SameEndpoint(parsed_data[i], parsed_data[j])
                /\ IfOf(parsed_data[i]) = CmciName
                /\ parsed_data'[k].id = parsed_data[i].id
                /\ PktsOf(parsed_data'[k]) = PktsOf(parsed_data[i]) \cup PktsOf(parsed_data[j])]_vars

\* a merge has been made of two halves with the same source address and
\* port whose destination addresses and ports both differ
C19_Witness ==
  /\ cls_pc = "done"
  /\ Len(cls_in) = 2
  /\ Len(parsed_data) = 1
  /\ Len(parsed_data[1].pkts) = 2
  /\ FlowId(cls_in[1]).src = FlowId(cls_in[2]).src
  /\ FlowId(cls_in[1]).ipdst # FlowId(cls_in[2]).ipdst
  /\ FlowId(cls_in[1]).dst # FlowId(cls_in[2]).dst

\* C20: every single-interface flow takes part in at most one merge, and
\* among several eligible candidates the first in flow-creation order is
\* the one merged: an earlier candidate passed over was already consumed by
\* a merge with an earlier flow.
C20_OneMergeFirstCandidate ==
  [][(cls_pc = "read" /\ cls_pc' = "done") =>
       /\ \A k \in 1..Len(parsed_data') :
            Cardinality(HalvesOf(parsed_data, parsed_data'[k])) <= 2
       /\ \A j \in 1..Len(parsed_data) :
            Cardinality({k \in 1..Len(parsed_data') :
                           j \in HalvesOf(parsed_data, parsed_data'[k])}) = 1
       /\ \A k \in 1..Len(parsed_data') :
            IsMerged(parsed_data, parsed_data'[k]) =>
              LET i == CHOOSE i \in HalvesOf(parsed_data, parsed_data'[k]) :
                         parsed_data[i].id = parsed_data'[k].id
                  j == CHOOSE j \in HalvesOf(parsed_data, parsed_data'[k]) : j # i
              IN \A c \in 1..(j - 1) :
                   (Halves(parsed_data[i], parsed_data[c])
                      /\ SameEndpoint(parsed_data[i], parsed_data[c]))
                     => \E k2 \in 1..Len(parsed_data') :
                          /\ k2 # k
                          /\ IsMerged(parsed_data, parsed_data'[k2])
                          /\ c \in HalvesOf(parsed_data, parsed_data'[k2])
                          /\ \E i2 \in 1..(i - 1) :
                               i2 \in HalvesOf(parsed_data, parsed_data'[k2])]_vars

\* a CMCI flow had two eligible NSI flows, was merged with the one created
\* first, and the other one is left as it was
C20_Witness ==
  /\ cls_pc = "done"
  /\ Len(cls_in) = 3
  /\ cls_in[1].ifn = NsiName /\ cls_in[2].ifn = NsiName /\ cls_in[3].ifn = CmciName
  /\ FlowId(cls_in[1]) # FlowId(cls_in[2])
  /\ FlowId(cls_in[1]).src = FlowId(cls_in[3]).src
  /\ FlowId(cls_in[2]).src = FlowId(cls_in[3]).src
  /\ cls_in[1].proto = 6 /\ cls_in[2].proto = 6 /\ cls_in[3].proto = 6
  /\ Len(parsed_data) = 2
  /\ parsed_data[1].id = FlowId(cls_in[2])
  /\ parsed_data[2].id = FlowId(cls_in[3])
  /\ Len(parsed_data[2].pkts) = 2

(***************************************************************************)
(* Further properties of the Correlator (SpecCorrelate).                   *)
(***************************************************************************)
\* the key the i-th match got in a latency map: its timestamp, moved one
\* step for every earlier match with the same timestamp
Key1(i) ==
  matched[i].nsi + Cardinality({j \in 1..(i - 1) : matched[j].nsi = matched[i].nsi})

Key2(i) ==
  matched[i].cmci + Cardinality({j \in 1..(i - 1) : matched[j].cmci = matched[i].cmci})

\* C21: for every match, whichever side was processed first, the
\* NSI-anchored latency is the CMCI timestamp minus the NSI timestamp,
\* negative exactly when the NSI packet follows its CMCI copy, and the
\* CMCI-anchored map holds the same value until the direction is decided.
C21_SignedLatency ==
  corr_pc = "loop" =>
    \A i \in 1..Len(matched) :
      /\ Key1(i) \in DOMAIN latency1
      /\ latency1[Key1(i)] = matched[i].cmci - matched[i].nsi
      /\ latency1[Key1(i)] < 0 <=> matched[i].nsi > matched[i].cmci
      /\ Key2(i) \in DOMAIN latency2
      /\ latency2[Key2(i)] = latency1[Key1(i)]

\* two matches so far: one completed by a later CMCI packet, one by a later
\* NSI packet
C21_Witness ==
  /\ corr_pc = "loop"
  /\ Len(matched) = 2
  /\ \E i, j \in 1..2 :
       /\ matched[i].nsi < matched[i].cmci
       /\ matched[j].nsi > matched[j].cmci
       /\ latency1[Key1(j)] < 0


\* the step processes a packet that completes a match
MatchStep ==
  /\ corr_pc = "loop" /\ corr_pc' = "loop"
  /\ Len(matched') = Len(matched) + 1

\* C23: a matched packet is recorded in the sanctioned-latency map exactly
\* when its DSCP is 3 and its ECN is 1 or 3, and in the CE-size map exactly
\* when its ECN is 3; so a packet with DSCP 3 and the CE mark is sanctioned.
C23_SanctionedAndCE ==
  [][MatchStep =>
       LET data == parsed_data'[flow_idx'].pkts[pkt_idx']
       IN /\ (DOMAIN dscp31' # DOMAIN dscp31 /\ DOMAIN dscp32' # DOMAIN dscp32)
               <=> (data.dscp = 3 /\ data.ecn \in {1, 3})
          /\ (DOMAIN CE_size1' # DOMAIN CE_size1 /\ DOMAIN CE_size2' # DOMAIN CE_size2)
               <=> data.ecn = 3]_vars


\* the timestamps the matched packets have on the NSI and on the CMCI side
MatchedNsi == {matched[i].nsi : i \in 1..Len(matched)}

MatchedCmci == {matched[i].cmci : i \in 1..Len(matched)}

SetMin(S) == CHOOSE m \in S : \A n \in S : m <= n

SetMax(S) == CHOOSE m \in S : \A n \in S : m >= n

\* a pending timestamp lies outside the matches of its side
Outside(t, S) == t < SetMin(S) \/ t > SetMax(S)

\* the step decides the direction of a flow that has a match
DecideStep == corr_pc = "loop" /\ corr_pc' = "decided" /\ matched # <<>>

\* C22: a pending packet earlier than the first match or later than the
\* last match of its own capture side is counted neither as dropped nor as
\* unmatched nor in the total; so every counted packet lies between the
\* first and last match of its side; dropped packets are pending packets of
\* the sending side only, unmatched ones of the receiving side only.
C22_EdgeTrimming ==
  [][DecideStep =>
       LET flow == parsed_data[flow_idx].id
           down == flow \in DOMAIN down_data'
           out == IF down THEN down_data'[flow] ELSE up_data'[flow]
           sent == IF down THEN pkt_times ELSE pkt_times2
           received == IF down THEN pkt_times2 ELSE pkt_times
           receivedLeft == IF down THEN pkt_times2' ELSE pkt_times'
           sentTs == IF down THEN MatchedNsi ELSE MatchedCmci
           receivedTs == IF down THEN MatchedCmci ELSE MatchedNsi
           matchedCount == IF down THEN total_packets1 ELSE total_packets2
       IN /\ (flow \in DOMAIN down_data') # (flow \in DOMAIN up_data')
          /\ DOMAIN out.dropped \subseteq DOMAIN sent
          /\ \A k \in DOMAIN out.dropped :
               out.dropped[k] = sent[k] /\ ~Outside(sent[k], sentTs)
          /\ DOMAIN receivedLeft \subseteq DOMAIN received
          /\ \A k \in DOMAIN receivedLeft :
               receivedLeft[k] = received[k] /\ ~Outside(received[k], receivedTs)
          /\ out.unmatched = Cardinality(DOMAIN receivedLeft)
          /\ out.total = matchedCount + Cardinality(DOMAIN out.dropped)
                           + out.unmatched]_vars

\* a downstream flow with two packets seen on the NSI side only: the one
\* inside the matches is dropped, the one before the first match is counted
\* nowhere
C22_Witness ==
  /\ corr_pc = "decided"
  /\ TheFlow \in DOMAIN down_data
  /\ Cardinality(DOMAIN down_data[TheFlow].dropped) = 1
  /\ \E i \in 1..Len(FlowPkts) :
       /\ FlowPkts[i].ifn = NsiName
       /\ FlowPkts[i].pid \notin DOMAIN down_data[TheFlow].dropped
       /\ \A j \in 1..Len(matched) : matched[j].pid # FlowPkts[i].pid
       /\ FlowPkts[i].ts < SetMin(MatchedNsi)


\* the packets processed so far that carry fingerprint pid
Seen(pid) == {i \in 1..pkt_idx : FlowPkts[i].pid = pid}

\* the latest of them
LastSeen(pid) == FlowPkts[SetMax(Seen(pid))]

\* a pending entry is the latest observation of its fingerprint
PendingIsLatest ==
  corr_pc \in {"loop", "decided"} =>
    /\ \A pid \in DOMAIN pkt_times :
         LastSeen(pid).ifn = NsiName /\ pkt_times[pid] = LastSeen(pid).ts
    /\ \A pid \in DOMAIN pkt_times2 :
         LastSeen(pid).ifn = CmciName /\ pkt_times2[pid] = LastSeen(pid).ts

\* a flow's output counts one packet for each fingerprint left pending
OnePerFingerprint ==
  (corr_pc = "decided" /\ matched # <<>>) =>
    LET flow == parsed_data[flow_idx].id
        down == flow \in DOMAIN down_data
        out == IF down THEN down_data[flow] ELSE up_data[flow]
    IN /\ out.dropped = (IF down THEN pkt_times ELSE pkt_times2)
       /\ out.total = (IF down THEN total_packets1 ELSE total_packets2)
                        + Cardinality(DOMAIN pkt_times)
                        + Cardinality(DOMAIN pkt_times2)

\* a match pairs the packet with the latest earlier observation of its
\* fingerprint
MatchesLatest ==
  MatchStep =>
    LET data == parsed_data'[flow_idx'].pkts[pkt_idx']
        prev == LastSeen(data.pid)
        m == matched'[Len(matched')]
    IN /\ prev.ifn # data.ifn
       /\ m = IF data.ifn = NsiName
              THEN [pid |-> data.pid, nsi |-> data.ts, cmci |-> prev.ts]
              ELSE [pid |-> data.pid, nsi |-> prev.ts, cmci |-> data.ts]

\* C24: a fingerprint collision in one pending map is a silent overwrite:
\* the second observation replaces the first, a later counterpart is matched
\* against the later timestamp only, and the earlier observation is counted
\* nowhere (no latency entry, not dropped, not unmatched, not in the total).
C24_SilentOverwrite ==
  /\ []PendingIsLatest
  /\ []OnePerFingerprint
  /\ [][MatchesLatest]_vars

\* the NSI side saw the fingerprint twice before the CMCI side saw it: the
\* one match is with the second NSI observation
C24_Witness ==
  /\ corr_pc = "loop"
  /\ pkt_idx = 3
  /\ FlowPkts[1].pid = FlowPkts[2].pid /\ FlowPkts[2].pid = FlowPkts[3].pid
  /\ FlowPkts[1].ifn = NsiName /\ FlowPkts[2].ifn = NsiName
  /\ FlowPkts[3].ifn = CmciName
  /\ FlowPkts[1].ts < FlowPkts[2].ts /\ FlowPkts[2].ts < FlowPkts[3].ts
  /\ Len(matched) = 1
  /\ matched[1].nsi = FlowPkts[2].ts
  /\ DOMAIN pkt_times = {}


\* C25: timestamp collisions never lose a match: every match gets a key of
\* its own in latency1 and in latency2, so both latency maps and both size
\* maps have exactly as many entries as there have been matches.
C25_NoMatchLost ==
  corr_pc = "loop" =>
    /\ \A i, j \in 1..Len(matched) :
         i # j => Key1(i) # Key1(j) /\ Key2(i) # Key2(j)
    /\ DOMAIN latency1 = {Key1(i) : i \in 1..Len(matched)}
    /\ DOMAIN latency2 = {Key2(i) : i \in 1..Len(matched)}
    /\ DOMAIN pkt_size1 = DOMAIN latency1
    /\ DOMAIN pkt_size2 = DOMAIN latency2
    /\ Cardinality(DOMAIN latency1) = Len(matched)
    /\ Cardinality(DOMAIN latency2) = Len(matched)

\* two matches whose packets have the same timestamp on both sides
C25_Witness ==
  /\ corr_pc = "loop"
  /\ Len(matched) = 2
  /\ matched[1].nsi = matched[2].nsi
  /\ matched[1].cmci = matched[2].cmci
  /\ Cardinality(DOMAIN latency1) = 2
  /\ Cardinality(DOMAIN latency2) = 2


\* what merging is stated to keep, for one direction's data d capped to d2
MergeKeepsAll(d, d2) ==
  (OtherFlows \in DOMAIN d2) =>
    LET merged == DOMAIN d \ DOMAIN d2
        other == d2[OtherFlows]
        Sum(F(_)) == SumOver([f \in merged |-> F(f)], merged)
        Total(f) == d[f].total
        Unmatched(f) == d[f].unmatched
        Latencies(f) == Cardinality(DOMAIN d[f].latency)
        Sizes(f) == Cardinality(DOMAIN d[f].pkt_size)
    IN /\ other.total = Sum(Total)
       /\ other.unmatched = Sum(Unmatched)
       /\ \A k \in DOMAIN other.dscp :
            LET Dscp(f) == IF k \in DOMAIN d[f].dscp THEN d[f].dscp[k] ELSE 0
            IN other.dscp[k] = Sum(Dscp)
       /\ \A k \in DOMAIN other.ecn :
            LET Ecn(f) == IF k \in DOMAIN d[f].ecn THEN d[f].ecn[k] ELSE 0
            IN other.ecn[k] = Sum(Ecn)
       /\ DOMAIN other.dscp = UNION {DOMAIN d[f].dscp : f \in merged}
       /\ DOMAIN other.ecn = UNION {DOMAIN d[f].ecn : f \in merged}
       /\ Cardinality(DOMAIN other.latency) = Sum(Latencies)
       /\ Cardinality(DOMAIN other.pkt_size) = Sum(Sizes)

\* C26: merging into "other flows" loses no packet data: total and
\* unmatched are the sums over the merged flows, the DSCP and ECN histograms
\* the per-key sums, and the latency and size maps hold one entry per
\* matched packet of every merged flow.
C26_MergeKeepsAll ==
  [][/\ (corr_pc = "done" /\ corr_pc' = "up_capped") => MergeKeepsAll(up_data, up_data')
     /\ (corr_pc = "up_capped" /\ corr_pc' = "capped") => MergeKeepsAll(down_data, down_data')]_vars

(***************************************************************************)
(* Properties of calculate_stats (SpecStats).                              *)
(***************************************************************************)
\* the 100 ms buckets of the call's size map
Buckets100ms == get_throughput(pkt_size_arg, Interval100ms).bps_array

\* the steady-state mean the ramp is measured against (lines 470-473)
SteadyMean ==
  LET from == t_steadystate * (Interval1s \div Interval100ms)
  IN IF Len(Buckets100ms) > from THEN Mean(PyFrom(Buckets100ms, from))
     ELSE [sum |-> 0, n |-> 1]

\* bucket i (from 1) reaches 90% of the steady-state mean
Reaches(i) == 10 * SteadyMean.n * Buckets100ms[i] >= 9 * SteadyMean.sum

FirstNonzero == SetMin({i \in 1..Len(Buckets100ms) : Buckets100ms[i] > 0})

FirstReaching ==
  SetMin({i \in FirstNonzero..Len(Buckets100ms) : Buckets100ms[i] > 0 /\ Reaches(i)})

\* C27: the ramp time is 100 ms times the number of consecutive 100 ms
\* buckets from the first bucket with nonzero throughput up to, not
\* including, the first bucket that reaches 90% of the steady-state mean,
\* zero-throughput buckets in between counted.
C27_RampTime ==
  stats_pc = "returned" =>
    stats_ret.ramp_ms = 100 * (FirstReaching - FirstNonzero)

\* the 1-second buckets of the call's size map
Throughput1s == get_throughput(pkt_size_arg, Interval1s)

\* C28: the P10 of the data rate is the 10th percentile of the 1-second
\* bucket throughputs from bucket (warm-up + first occupied) to the last
\* occupied bucket, whenever that range is not empty.
C28_P10 ==
  (stats_pc = "returned" /\ t_steadystate + Throughput1s.start_t <= Throughput1s.end_t) =>
    LET range == PySlice(Throughput1s.bps_array,
                         t_steadystate + Throughput1s.start_t,
                         Throughput1s.end_t + 1)
    IN 10 * stats_ret.p10_bps_x1000 = 1000 * Percentile(range, 1, 10)

(***************************************************************************)
(* Pending observations of the Correlator (SpecCorrelate).                 *)
(***************************************************************************)
\* the processed packets of one side that carry fingerprint pid
SeenOn(pid, ifn) == {i \in Seen(pid) : FlowPkts[i].ifn = ifn}

MatchesOf(pid) == {i \in 1..Len(matched) : matched[i].pid = pid}

\* no fingerprint is pending on both sides, and the matches of a fingerprint
\* with what is pending of it use each observation at most once
PendingOnOneSide ==
  corr_pc = "loop" =>
    /\ DOMAIN pkt_times \cap DOMAIN pkt_times2 = {}
    /\ \A pid \in CorrPids :
         /\ Cardinality(MatchesOf(pid))
              + (IF pid \in DOMAIN pkt_times THEN 1 ELSE 0)
              <= Cardinality(SeenOn(pid, NsiName))
         /\ Cardinality(MatchesOf(pid))
              + (IF pid \in DOMAIN pkt_times2 THEN 1 ELSE 0)
              <= Cardinality(SeenOn(pid, CmciName))

\* a match removes the pending entry it consumed
MatchConsumes ==
  MatchStep =>
    LET pid == parsed_data'[flow_idx'].pkts[pkt_idx'].pid
    IN /\ pid \in DOMAIN pkt_times \cup DOMAIN pkt_times2
       /\ pid \notin DOMAIN pkt_times' \cup DOMAIN pkt_times2'

\* C29: while parse_data processes a flow, no fingerprint is in both pending
\* maps at once, and a match removes the pending entry it consumed, so one
\* pending observation is matched at most once.
C29_MatchedOnce ==
  /\ []PendingOnOneSide
  /\ [][MatchConsumes]_vars

\* after a match the NSI side sees the fingerprint again: the new
\* observation is pending, the matched one is gone
C29_Witness ==
  /\ corr_pc = "loop"
  /\ pkt_idx = 3
  /\ Len(matched) = 1
  /\ FlowPkts[3].ifn = NsiName
  /\ FlowPkts[3].pid = matched[1].pid
  /\ DOMAIN pkt_times = {matched[1].pid}
  /\ pkt_times[matched[1].pid] = FlowPkts[3].ts
  /\ DOMAIN pkt_times2 = {}

(***************************************************************************)
(* Properties of the edge trimming under reordering (SpecCross).           *)
(***************************************************************************)
\* C30: the trimming window for the pending packets of the non-anchor side
\* (CMCI for a downstream flow, NSI for an upstream one) is bounded by the
\* smallest and the largest timestamp of the matched packets on that side,
\* also when the matched packets leave in another order than they arrived:
\* the pending packets kept are those within these two timestamps.
C30_WindowIsMinMax ==
  [][DecideStep =>
       LET flow == parsed_data[flow_idx].id
           down == flow \in DOMAIN down_data'
           received == IF down THEN pkt_times2 ELSE pkt_times
           receivedLeft == IF down THEN pkt_times2' ELSE pkt_times'
           receivedTs == IF down THEN MatchedCmci ELSE MatchedNsi
       IN DOMAIN receivedLeft =
            {k \in DOMAIN received : ~Outside(received[k], receivedTs)}]_vars

====
